---- MODULE Spec2Model ----
(***************************************************************************)
(* Authentication core of go-gin-api-server: the JWT manager               *)
(* (pkg/utils), the auth service (internal/service), the auth middleware   *)
(* (internal/middleware), the RBAC middleware, the refresh route of the     *)
(* auth handler and the two stores used by registration.                   *)
(*                                                                         *)
(* Time is counted in ticks; SecondTicks ticks make one second.  The JWT   *)
(* library stores NumericDate values with a precision of one second.  A    *)
(* second has more ticks than the refresh lifetime has access lifetimes,   *)
(* so that both expiries of a bundle can fall into the same second.        *)
(***************************************************************************)
EXTENDS Integers, Sequences, FiniteSets, TLC

\* ------------------------------------------------------------------ bounds
MaxUsers == 2
SecondTicks == 170
MaxDuration == 3
MaxElapsed == 2
MaxProcs == 2
MaxUses == 2

\* ------------------------------------------------------- program constants
\* refresh lifetime = tokenDuration * 24 * 7
RefreshHours == 24
RefreshDays == 7
StatusOK == 200
StatusBadRequest == 400
StatusUnauthorized == 401
StatusForbidden == 403
StatusConflict == 409
StatusInternalServerError == 500

JWTIssuer == "go-gin-api-server"
RoleUser == "user"
RoleAdmin == "admin"
\* zero value of model.UserRole
RoleZero == ""

ErrNil == "nil"
ErrNotFound == "resource not found"
ErrValidation == "validation error"
ErrUnauthorized == "unauthorized"
ErrForbidden == "forbidden"
ErrUserExists == "user already exists"
ErrUserUnderAge == "user under age"
ErrInvalidToken == "invalid token"
ErrExpiredToken == "token has expired"
\* an error of the database driver, none of the apperrors values
ErrDB == "database error"
\* the error of the database driver for an INSERT that a unique index refuses
ErrDuplicateKey == "duplicate key value violates unique constraint"
\* an error of bcrypt
ErrHash == "hash error"

UserIds == 1..MaxUsers
Procs == 1..MaxProcs
Secrets == {"secret1", "secret2"}
Durations == 1..MaxDuration
\* the clock starts one tick before a full second, late enough for a refresh
\* token issued at time 0 to have expired
StartTime == ((MaxDuration * RefreshHours * RefreshDays) \div SecondTicks + 2) * SecondTicks - 1
MaxTime == StartTime + MaxElapsed
\* times at which a token presented now may have been issued
IssueTimes == {0, StartTime - 1, StartTime}

VARIABLES
    clock,          \* time.Now(), in ticks
    secretKey,      \* JWTManager.secretKey
    tokenDuration,  \* JWTManager.tokenDuration, in ticks
    users,          \* users table: id -> row, or NoUser
    creds,          \* user_credentials table: set of user ids that have a row
    cUser,          \* codec: the identity tokens are issued for
    cBundle,        \* codec: the last TokenResponse of GenerateToken
    cAccess,        \* codec: the last result of GenerateAccessToken
    cResult,        \* codec: the last result of ValidateToken and what it was applied to
    cIssuedAt,      \* codec: time.Now() when each token at hand was issued
    cRead,          \* codec: the claims read back from the two tokens of cBundle
    gReq,           \* gate: the request (which gate, Authorization header, refresh cookie)
    gPc,            \* gate: position of the request inside the middleware
    gCtx,           \* gate: gin context keys user_id / user_role
    gResp,          \* gate: response status, error body and renewal headers
    gCalls,         \* gate: auth service calls and c.Next() runs of this request, in order
    today,          \* the UTC date of time.Now()
    nextId,         \* the next id gen_random_uuid() hands out
    rPc,            \* Register: position of each call
    rReq,           \* Register: the RegisterRequest of each call
    rUser,          \* Register: the id of the user row the call created, 0 if none
    rRet,           \* Register: the pending or returned result of each call
    rLog,           \* Register: the store and hashing calls of each call, in order
    sCall,          \* service: the auth service call of the request at hand and its result
    bReq,           \* RBAC: the request (context keys, route id) the RBAC middlewares see
    bOut            \* RBAC: what each RBAC middleware did with that request

codecVars == <<cUser, cBundle, cAccess, cResult, cIssuedAt, cRead>>
gateVars == <<gReq, gPc, gCtx, gResp, gCalls>>
regVars == <<today, nextId, rPc, rReq, rUser, rRet, rLog>>
svcVars == <<sCall>>
rbacVars == <<bReq, bOut>>
vars == <<clock, secretKey, tokenDuration, users, creds, codecVars, rbacVars, svcVars, gateVars,
          regVars>>

\* ------------------------------------------------------------ Token Codec
\* jwt.NewNumericDate: truncation to the second
NumericDate(t) == t - (t % SecondTicks)

\* the claims of a token string
ClaimsOf(tokenString) == tokenString[1].claims

NilClaims == [UserID |-> 0, Role |-> RoleZero, Issuer |-> "", Subject |-> 0,
              ExpiresAt |-> 0, NotBefore |-> 0, IssuedAt |-> 0]

\* a signed token string: header.payload.signature
SignedString(claims, key) ==
    <<[k |-> "jwt", alg |-> "HS256", key |-> key, claims |-> claims]>>

\* the empty string
EmptyString == <<>>

\* an expiry computed from the truncated issue time
GenerateAccessToken_ExpiryFromIssuedAt(user, now, key, d) ==
    SignedString([UserID |-> user.ID, Role |-> RoleZero,
                  Issuer |-> JWTIssuer, Subject |-> user.ID,
                  ExpiresAt |-> NumericDate(now) + d,
                  NotBefore |-> NumericDate(now),
                  IssuedAt |-> NumericDate(now)], key)

GenerateAccessToken(user, now, key, d) ==
    SignedString([UserID |-> user.ID, Role |-> RoleZero,
                  Issuer |-> JWTIssuer, Subject |-> user.ID,
                  ExpiresAt |-> NumericDate(now + d),
                  NotBefore |-> NumericDate(now),
                  IssuedAt |-> NumericDate(now)], key)

\* a refresh token that lives as long as the access token
GenerateToken_RefreshSameLifetime(user, nowA, nowR, key, d) ==
    [AccessToken |-> GenerateAccessToken(user, nowA, key, d),
     RefreshToken |-> SignedString([UserID |-> user.ID, Role |-> RoleZero,
                                    Issuer |-> JWTIssuer, Subject |-> user.ID,
                                    ExpiresAt |-> NumericDate(nowR + d),
                                    NotBefore |-> NumericDate(nowR),
                                    IssuedAt |-> NumericDate(nowR)], key),
     TokenType |-> "Bearer",
     ExpiresIn |-> d \div SecondTicks]

\* nowA is time.Now() of the access half, nowR the later time.Now() of the refresh half
GenerateToken(user, nowA, nowR, key, d) ==
    [AccessToken |-> GenerateAccessToken(user, nowA, key, d),
     RefreshToken |-> SignedString([UserID |-> user.ID, Role |-> RoleZero,
                                    Issuer |-> JWTIssuer, Subject |-> user.ID,
                                    ExpiresAt |-> NumericDate(nowR + d * RefreshHours * RefreshDays),
                                    NotBefore |-> NumericDate(nowR),
                                    IssuedAt |-> NumericDate(nowR)], key),
     TokenType |-> "Bearer",
     ExpiresIn |-> d \div SecondTicks]

\* a parser that looks at the expiry before it verifies the signature
ValidateToken_ClaimsFirst(tokenString, now, key) ==
    IF Len(tokenString) # 1 \/ tokenString[1].k # "jwt"
    THEN [err |-> ErrInvalidToken, claims |-> NilClaims]
    ELSE LET t == tokenString[1] IN
         IF ~(now < t.claims.ExpiresAt)
         THEN [err |-> ErrExpiredToken, claims |-> NilClaims]
         ELSE IF t.alg # "HS256" \/ t.key # key
         THEN [err |-> ErrInvalidToken, claims |-> NilClaims]
         ELSE IF now < t.claims.NotBefore
         THEN [err |-> ErrInvalidToken, claims |-> NilClaims]
         ELSE [err |-> ErrNil, claims |-> t.claims]

\* jwt.ParseWithClaims followed by the error mapping of ValidateToken
ValidateToken(tokenString, now, key) ==
    IF Len(tokenString) # 1 \/ tokenString[1].k # "jwt"
    THEN [err |-> ErrInvalidToken, claims |-> NilClaims]
    ELSE LET t == tokenString[1] IN
         IF t.alg # "HS256" \/ t.key # key
         THEN [err |-> ErrInvalidToken, claims |-> NilClaims]
         ELSE IF ~(now < t.claims.ExpiresAt)
         THEN [err |-> ErrExpiredToken, claims |-> NilClaims]
         ELSE IF now < t.claims.NotBefore
         THEN [err |-> ErrInvalidToken, claims |-> NilClaims]
         ELSE [err |-> ErrNil, claims |-> t.claims]

\* ------------------------------------------------------------ the stores
\* a row of the users table (model.User); present = FALSE means no such row
NoUser == [present |-> FALSE, ID |-> 0, Username |-> "", Email |-> "",
           IsActive |-> FALSE, Role |-> RoleUser]

\* userRepositoryImpl.FindByID; dbFails is a failure of the query itself
FindByID(table, id, dbFails) ==
    IF dbFails THEN [err |-> ErrDB, user |-> NoUser]
    ELSE IF id \notin DOMAIN table \/ ~table[id].present
    THEN [err |-> ErrNotFound, user |-> NoUser]
    ELSE [err |-> ErrNil, user |-> table[id]]

\* userRepositoryImpl.Delete
Delete(table, id, dbFails) ==
    IF dbFails THEN [err |-> ErrDB, table |-> table]
    ELSE IF id \notin DOMAIN table \/ ~table[id].present
    THEN [err |-> ErrNotFound, table |-> table]
    ELSE [err |-> ErrNil, table |-> [table EXCEPT ![id] = NoUser]]

\* ----------------------------------------------------------- auth service
\* a RefreshAccessToken without the check of the active flag
RefreshAccessToken_NoActiveCheck(refreshToken, table, now, key, d, dbFails) ==
    LET v == ValidateToken(refreshToken, now, key)
        f == FindByID(table, v.claims.UserID, dbFails)
    IN  IF v.err # ErrNil THEN [err |-> v.err, token |-> EmptyString]
        ELSE IF f.err # ErrNil THEN [err |-> ErrUnauthorized, token |-> EmptyString]
        ELSE [err |-> ErrNil, token |-> GenerateAccessToken(f.user, now, key, d)]

\* authServiceImpl.RefreshAccessToken
RefreshAccessToken(refreshToken, table, now, key, d, dbFails) ==
    LET v == ValidateToken(refreshToken, now, key)
        f == FindByID(table, v.claims.UserID, dbFails)
    IN  IF v.err # ErrNil THEN [err |-> v.err, token |-> EmptyString]
        ELSE IF f.err # ErrNil THEN [err |-> ErrUnauthorized, token |-> EmptyString]
        ELSE IF ~f.user.IsActive THEN [err |-> ErrForbidden, token |-> EmptyString]
        ELSE [err |-> ErrNil, token |-> GenerateAccessToken(f.user, now, key, d)]

\* ------------------------------------------------------------ request gate
\* pieces of header text
Word(w) == [k |-> "word", w |-> w]
Space == [k |-> "sp"]
\* text that is not a JWT, such as "not.a.token"
Junk == [k |-> "junk"]

\* strings.SplitN(authHeader, " ", 2)
SplitN2(h) ==
    IF \E i \in 1..Len(h) : h[i].k = "sp"
    THEN LET i == CHOOSE n \in 1..Len(h) :
                     h[n].k = "sp" /\ \A j \in 1..(n - 1) : h[j].k # "sp"
         IN  <<SubSeq(h, 1, i - 1), SubSeq(h, i + 1, Len(h))>>
    ELSE <<h>>

\* a scheme comparison that ignores case
BearerFormat_AnyCase(h) ==
    /\ h # EmptyString
    /\ Len(SplitN2(h)) = 2
    /\ SplitN2(h)[1] \in {<<Word("Bearer")>>, <<Word("bearer")>>}

\* the header passes the checks of lines 29 and 36
BearerFormat(h) ==
    /\ h # EmptyString
    /\ Len(SplitN2(h)) = 2
    /\ SplitN2(h)[1] = <<Word("Bearer")>>

\* token := parts[1]
BearerToken(h) == SplitN2(h)[2]

\* tokens a client can hold: issued by this server for some identity at some
\* earlier time, or made without the server's secret
IdentityOf(id) == [NoUser EXCEPT !.present = TRUE, !.ID = id, !.IsActive = TRUE]

HeldTokens(key, d) ==
    {[kind |-> "access", tok |-> GenerateToken(IdentityOf(id), t, t, key, d).AccessToken] :
        id \in UserIds, t \in IssueTimes}
    \cup {[kind |-> "refresh", tok |-> GenerateToken(IdentityOf(id), t, t, key, d).RefreshToken] :
        id \in UserIds, t \in IssueTimes}
    \cup {[kind |-> "forged", tok |-> GenerateAccessToken(IdentityOf(1), t, "attacker", d)] :
        t \in {0, StartTime}}
    \cup {[kind |-> "junk", tok |-> <<Junk>>], [kind |-> "empty", tok |-> EmptyString]}

\* Authorization header values
HeaderInputs(key, d) ==
    LET good == GenerateAccessToken(IdentityOf(1), StartTime, key, d)
    IN  {[kind |-> "absent", h |-> EmptyString],
         [kind |-> "malformed", h |-> <<Word("Bearer")>>],
         [kind |-> "malformed", h |-> good],
         [kind |-> "malformed", h |-> <<Word("bearer"), Space>> \o good],
         [kind |-> "malformed", h |-> <<Word("Basic"), Space>> \o good],
         [kind |-> "malformed", h |-> <<Space, Word("Bearer"), Space>> \o good],
         [kind |-> "junk", h |-> <<Word("Bearer"), Space, Space>> \o good]}
    \cup {[kind |-> x.kind, h |-> <<Word("Bearer"), Space>> \o x.tok] : x \in HeldTokens(key, d)}

\* the gin_api_refresh_token cookie
CookieInputs(key, d) ==
    {[kind |-> "absent", present |-> FALSE, value |-> EmptyString]}
    \cup {[kind |-> x.kind, present |-> TRUE, value |-> x.tok] : x \in HeldTokens(key, d)}

NoCtx == [has |-> FALSE, user_id |-> 0, user_role |-> RoleZero]
NoResp == [status |-> 0, error |-> "", aborted |-> FALSE,
           XNewAccessToken |-> EmptyString, XTokenType |-> "", SetCookie |-> EmptyString]
\* the cookie of a request is drawn when tryAutoRefresh reads it
UnreadCookie == [kind |-> "unread", present |-> FALSE, value |-> EmptyString]
NoReq == [gate |-> "none", authHeader |-> EmptyString, bearerKind |-> "absent",
          cookie |-> UnreadCookie]

Call(op, arg, err, claims, out) ==
    [op |-> op, arg |-> arg, err |-> err, claims |-> claims, out |-> out, ctx |-> NoCtx]
\* c.Next(): the downstream handler runs and sees the context
NextCall(ctx) ==
    [op |-> "Next", arg |-> EmptyString, err |-> ErrNil, claims |-> NilClaims,
     out |-> EmptyString, ctx |-> ctx]

\* an error switch that answers an expired token as an invalid one
handleAuthError_ExpiredAsInvalid(resp, err) ==
    [resp EXCEPT !.status = IF err \in {ErrInvalidToken, ErrExpiredToken, ErrUnauthorized}
                            THEN StatusUnauthorized ELSE StatusInternalServerError,
                 !.error = CASE err \in {ErrInvalidToken, ErrExpiredToken} -> "Invalid token"
                             [] err = ErrUnauthorized -> "Unauthorized"
                             [] OTHER -> "Internal server error",
                 !.aborted = TRUE]

\* handleAuthError: the JSON body and c.Abort()
handleAuthError(resp, err) ==
    [resp EXCEPT !.status = IF err \in {ErrInvalidToken, ErrExpiredToken, ErrUnauthorized}
                            THEN StatusUnauthorized ELSE StatusInternalServerError,
                 !.error = CASE err = ErrInvalidToken -> "Invalid token"
                             [] err = ErrExpiredToken -> "Token has expired"
                             [] err = ErrUnauthorized -> "Unauthorized"
                             [] OTHER -> "Internal server error",
                 !.aborted = TRUE]

\* the downstream handler of the route answers with its own success status
HandlerResponse(resp) == [resp EXCEPT !.status = StatusOK]

\* c.Set("user_id", claims.UserID); c.Set("user_role", claims.Role)
SetIdentity(claims) == [has |-> TRUE, user_id |-> claims.UserID, user_role |-> claims.Role]

\* ------------------------------------------------------------ registration
\* a calendar date; NoDate is a nil *time.Time
NoDate == [y |-> 0, m |-> 0, d |-> 0]
IsLeap(y) == (y % 4 = 0 /\ y % 100 # 0) \/ y % 400 = 0
DaysIn(y, m) ==
    IF m = 2 THEN (IF IsLeap(y) THEN 29 ELSE 28)
    ELSE IF m \in {4, 6, 9, 11} THEN 30 ELSE 31
RECURSIVE DaysBefore(_, _)
DaysBefore(y, m) == IF m <= 1 THEN 0 ELSE DaysBefore(y, m - 1) + DaysIn(y, m - 1)
\* time.Time.YearDay
YearDay(date) == DaysBefore(date.y, date.m) + date.d

\* authServiceImpl.isUnder13
isUnder13(birthDate, now) ==
    LET age == now.y - birthDate.y
    IN  (IF YearDay(now) < YearDay(birthDate) THEN age - 1 ELSE age) < 13

ReservedUsernames ==
    {"admin", "administrator", "root", "system", "api",
     "www", "mail", "ftp", "support", "help",
     "test", "demo", "guest", "user", "default"}

\* authServiceImpl.isReservedUsername
isReservedUsername(username) == username \in ReservedUsernames

\* utils.HashPassword: bcrypt, which refuses some passwords
HashPassword(password) ==
    IF password = "unhashable" THEN [err |-> ErrHash, hash |-> <<>>]
    ELSE [err |-> ErrNil, hash |-> <<"bcrypt", password>>]

\* utils.CheckPassword: nil exactly for the password the hash was made from
CheckPassword(hashedPassword, password) ==
    IF hashedPassword = <<"bcrypt", password>> THEN ErrNil ELSE ErrHash

\* model.CreateUser, with the id the database gives the row
CreateUser(id, username, email) ==
    [present |-> TRUE, ID |-> id, Username |-> username, Email |-> email,
     IsActive |-> TRUE, Role |-> RoleUser]

\* the SELECT of userRepositoryImpl.Create: a row with this username or email
ExistingUser(table, username, email) ==
    \E id \in DOMAIN table :
        /\ table[id].present
        /\ \/ username # "" /\ table[id].Username = username
           \/ email # "" /\ table[id].Email = email

RegisterRequests ==
    LET child == [y |-> 2015, m |-> 1, d |-> 1]
        adult == [y |-> 2000, m |-> 1, d |-> 1]
        Req(u, e, b, pw) == [Username |-> u, Email |-> e, BirthDate |-> b, Password |-> pw]
    IN  {Req("ann", "", NoDate, "secret123"),
         Req("ann", "ann@example.com", adult, "unhashable"),
         Req("", "ann@example.com", adult, "secret123"),
         Req("", "", NoDate, "secret123"),
         Req("admin", "", adult, "secret123"),
         Req("ann", "", child, "secret123")}

NoRequest == [Username |-> "", Email |-> "", BirthDate |-> NoDate, Password |-> ""]
\* nothing returned yet
NoReturn == [returned |-> FALSE, err |-> ErrNil, bundle |-> <<>>]
LogEntry(p, op, id, err) == [p |-> p, op |-> op, id |-> id, err |-> err]

InitRegVars ==
    /\ today = [y |-> 2024, m |-> 3, d |-> 1]
    /\ nextId = 1
    /\ rPc = [p \in Procs |-> "idle"]
    /\ rReq = [p \in Procs |-> NoRequest]
    /\ rUser = [p \in Procs |-> 0]
    /\ rRet = [p \in Procs |-> NoReturn]
    /\ rLog = [p \in Procs |-> <<>>]

\* ------------------------------------------------------- RBAC middleware
\* a key of the gin context: whether it is set, and the Go type and the value
\* of what it is set to
NoValue == [exists |-> FALSE, type |-> "none", id |-> 0, role |-> RoleZero]
StringValue(id) == [exists |-> TRUE, type |-> "string", id |-> id, role |-> RoleZero]
IntValue(id) == [exists |-> TRUE, type |-> "int", id |-> id, role |-> RoleZero]
UserRoleValue(role) == [exists |-> TRUE, type |-> "UserRole", id |-> 0, role |-> role]
\* a role set as a plain string, not as a model.UserRole
PlainRoleValue(role) == [exists |-> TRUE, type |-> "string", id |-> 0, role |-> role]

\* UserRole.IsAdmin
IsAdmin(role) == role = RoleAdmin

\* what a middleware did: the response it wrote and whether c.Next() ran
NoOutcome == [ran |-> FALSE, status |-> 0, error |-> "", aborted |-> FALSE, next |-> FALSE]
\* c.Next(): the handler of the route answers
Continue == [ran |-> TRUE, status |-> StatusOK, error |-> "", aborted |-> FALSE, next |-> TRUE]

\* handleRBACError
handleRBACError(err) ==
    [ran |-> TRUE,
     status |-> CASE err = ErrUnauthorized -> StatusUnauthorized
                  [] err = ErrForbidden -> StatusForbidden
                  [] OTHER -> StatusInternalServerError,
     error |-> CASE err = ErrUnauthorized -> "Unauthorized"
                 [] err = ErrForbidden -> "Access denied"
                 [] OTHER -> "Internal server error",
     aborted |-> TRUE, next |-> FALSE]

\* a RequireAdmin that answers a missing role like a wrong one
RequireAdmin_MissingIsForbidden(req) ==
    IF ~req.user_role.exists THEN handleRBACError(ErrForbidden)
    ELSE IF req.user_role.type # "UserRole" THEN handleRBACError(ErrUnauthorized)
    ELSE IF ~IsAdmin(req.user_role.role) THEN handleRBACError(ErrForbidden)
    ELSE Continue

\* RBACMiddleware.RequireAdmin
RequireAdmin(req) ==
    IF ~req.user_role.exists THEN handleRBACError(ErrUnauthorized)
    ELSE IF req.user_role.type # "UserRole" THEN handleRBACError(ErrUnauthorized)
    ELSE IF ~IsAdmin(req.user_role.role) THEN handleRBACError(ErrForbidden)
    ELSE Continue

\* a RequireOwnershipOrAdmin that forgets the admin
RequireOwnershipOrAdmin_OwnerOnly(req) ==
    IF ~req.user_id.exists THEN handleRBACError(ErrUnauthorized)
    ELSE IF req.user_id.type # "string" THEN handleRBACError(ErrUnauthorized)
    ELSE IF ~req.user_role.exists THEN handleRBACError(ErrUnauthorized)
    ELSE IF req.user_role.type # "UserRole" THEN handleRBACError(ErrUnauthorized)
    ELSE IF req.user_id.id = req.id THEN Continue
    ELSE handleRBACError(ErrForbidden)

\* RBACMiddleware.RequireOwnershipOrAdmin; req.id is c.Param("id")
RequireOwnershipOrAdmin(req) ==
    IF ~req.user_id.exists THEN handleRBACError(ErrUnauthorized)
    ELSE IF req.user_id.type # "string" THEN handleRBACError(ErrUnauthorized)
    ELSE IF ~req.user_role.exists THEN handleRBACError(ErrUnauthorized)
    ELSE IF req.user_role.type # "UserRole" THEN handleRBACError(ErrUnauthorized)
    ELSE IF IsAdmin(req.user_role.role) \/ req.user_id.id = req.id THEN Continue
    ELSE handleRBACError(ErrForbidden)

\* RBACMiddleware.RequireOwnership
RequireOwnership(req) ==
    IF ~req.user_id.exists THEN handleRBACError(ErrUnauthorized)
    ELSE IF req.user_id.type # "string" THEN handleRBACError(ErrUnauthorized)
    ELSE IF req.user_id.id # req.id THEN handleRBACError(ErrForbidden)
    ELSE Continue

\* the contexts an earlier middleware can leave, and the :id of the route;
\* id 0 is a route without :id
RBACRequests ==
    [user_id : {NoValue} \cup {IntValue(1)} \cup {StringValue(i) : i \in UserIds},
     user_role : {NoValue, PlainRoleValue(RoleAdmin)}
                 \cup {UserRoleValue(r) : r \in {RoleAdmin, RoleUser, RoleZero}},
     id : {0} \cup UserIds]

NoRBACRequest == [user_id |-> NoValue, user_role |-> NoValue, id |-> 0]
NoRBACOutcomes == [RequireAdmin |-> NoOutcome, RequireOwnership |-> NoOutcome,
                   RequireOwnershipOrAdmin |-> NoOutcome]
InitRBACVars ==
    /\ bReq = NoRBACRequest
    /\ bOut = NoRBACOutcomes

\* ------------------------------------------------- login and token refresh
\* the usernames and emails of the identities of the users table
Usernames == <<"ann", "bob", "cyd", "dan", "eve">>
Emails == <<"ann@example.com", "bob@example.com", "cyd@example.com",
            "dan@example.com", "eve@example.com">>
\* the password every identity registered with
RegisteredPassword == "secret123"

\* userRepositoryImpl.FindByUsername
FindByUsername(table, username, dbFails) ==
    IF dbFails THEN [err |-> ErrDB, user |-> NoUser]
    ELSE IF \E id \in DOMAIN table : table[id].present /\ table[id].Username = username
    THEN [err |-> ErrNil,
          user |-> table[CHOOSE id \in DOMAIN table :
                             table[id].present /\ table[id].Username = username]]
    ELSE [err |-> ErrNotFound, user |-> NoUser]

\* userRepositoryImpl.FindByEmail; a row without email holds NULL, which
\* equals nothing
FindByEmail(table, email, dbFails) ==
    IF dbFails THEN [err |-> ErrDB, user |-> NoUser]
    ELSE IF \E id \in DOMAIN table :
               table[id].present /\ table[id].Email # "" /\ table[id].Email = email
    THEN [err |-> ErrNil,
          user |-> table[CHOOSE id \in DOMAIN table :
                             table[id].present /\ table[id].Email = email]]
    ELSE [err |-> ErrNotFound, user |-> NoUser]

\* a row of user_credentials
NoCredentials == [UserID |-> 0, Password |-> <<>>]

\* authRepositoryImpl.FindByUserID: every error of the query is ErrNotFound
FindByUserID(credSet, userID, dbFails) ==
    IF dbFails \/ userID \notin credSet
    THEN [err |-> ErrNotFound, credentials |-> NoCredentials]
    ELSE [err |-> ErrNil,
          credentials |-> [UserID |-> userID,
                           Password |-> HashPassword(RegisteredPassword).hash]]

\* a Login that checks the active flag before the password
Login_ActiveFirst(req, table, credSet, now, key, d, dbFailsUser, dbFailsCred) ==
    LET f == IF req.Username # ""
             THEN FindByUsername(table, req.Username, dbFailsUser)
             ELSE FindByEmail(table, req.Email, dbFailsUser)
        c == FindByUserID(credSet, f.user.ID, dbFailsCred)
    IN  IF f.err # ErrNil THEN [err |-> ErrUnauthorized, bundle |-> <<>>]
        ELSE IF ~f.user.IsActive THEN [err |-> ErrForbidden, bundle |-> <<>>]
        ELSE IF c.err # ErrNil THEN [err |-> ErrUnauthorized, bundle |-> <<>>]
        ELSE IF CheckPassword(c.credentials.Password, req.Password) # ErrNil
        THEN [err |-> ErrUnauthorized, bundle |-> <<>>]
        ELSE [err |-> ErrNil, bundle |-> <<GenerateToken(f.user, now, now, key, d)>>]

\* authServiceImpl.Login
Login(req, table, credSet, now, key, d, dbFailsUser, dbFailsCred) ==
    LET f == IF req.Username # ""
             THEN FindByUsername(table, req.Username, dbFailsUser)
             ELSE FindByEmail(table, req.Email, dbFailsUser)
        c == FindByUserID(credSet, f.user.ID, dbFailsCred)
    IN  IF f.err # ErrNil THEN [err |-> ErrUnauthorized, bundle |-> <<>>]
        ELSE IF c.err # ErrNil THEN [err |-> ErrUnauthorized, bundle |-> <<>>]
        ELSE IF CheckPassword(c.credentials.Password, req.Password) # ErrNil
        THEN [err |-> ErrUnauthorized, bundle |-> <<>>]
        ELSE IF ~f.user.IsActive THEN [err |-> ErrForbidden, bundle |-> <<>>]
        ELSE [err |-> ErrNil, bundle |-> <<GenerateToken(f.user, now, now, key, d)>>]

\* a RefreshToken that folds every failure into unauthorized, as Login does
RefreshToken_FoldedErrors(refreshToken, table, now, key, d, dbFails) ==
    LET v == ValidateToken(refreshToken, now, key)
        f == FindByID(table, v.claims.UserID, dbFails)
    IN  IF v.err # ErrNil THEN [err |-> ErrUnauthorized, bundle |-> <<>>]
        ELSE IF f.err # ErrNil THEN [err |-> ErrUnauthorized, bundle |-> <<>>]
        ELSE IF ~f.user.IsActive THEN [err |-> ErrForbidden, bundle |-> <<>>]
        ELSE [err |-> ErrNil, bundle |-> <<GenerateToken(f.user, now, now, key, d)>>]

\* authServiceImpl.RefreshToken
RefreshToken(refreshToken, table, now, key, d, dbFails) ==
    LET v == ValidateToken(refreshToken, now, key)
        f == FindByID(table, v.claims.UserID, dbFails)
    IN  IF v.err # ErrNil THEN [err |-> v.err, bundle |-> <<>>]
        ELSE IF f.err # ErrNil THEN [err |-> ErrUnauthorized, bundle |-> <<>>]
        ELSE IF ~f.user.IsActive THEN [err |-> ErrForbidden, bundle |-> <<>>]
        ELSE [err |-> ErrNil, bundle |-> <<GenerateToken(f.user, now, now, key, d)>>]

NoLoginRequest == [Username |-> "", Email |-> "", Password |-> ""]

LoginRequests ==
    LET Req(u, e, pw) == [Username |-> u, Email |-> e, Password |-> pw]
    IN  {Req(Usernames[1], "", RegisteredPassword),
         Req(Usernames[1], "", "wrongpass"),
         Req("", Emails[1], RegisteredPassword),
         Req(Usernames[2], "", RegisteredPassword),
         Req(Usernames[2], "", "wrongpass"),
         Req(Usernames[1], Emails[2], RegisteredPassword),
         Req("zed", "", RegisteredPassword),
         Req("", "", RegisteredPassword)}

\* no service call at hand
NoCall == [op |-> "none", req |-> NoLoginRequest, arg |-> EmptyString, kind |-> "none",
           at |-> 0, dbFails |-> <<>>, err |-> ErrNil, bundle |-> <<>>,
           accessErr |-> ErrNil, accessToken |-> EmptyString, resp |-> NoResp,
           uses |-> 0]

\* AuthHandler.handleAuthError: the status and the JSON body of each error
AuthHandlerError(resp, err) ==
    [resp EXCEPT !.status = CASE err \in {ErrValidation, ErrUserUnderAge} -> StatusBadRequest
                              [] err = ErrUserExists -> StatusConflict
                              [] err \in {ErrUnauthorized, ErrInvalidToken, ErrExpiredToken}
                                    -> StatusUnauthorized
                              [] err = ErrForbidden -> StatusForbidden
                              [] OTHER -> StatusInternalServerError,
                 !.error = CASE err = ErrValidation -> "Invalid request format"
                             [] err = ErrUserExists -> "User already exists"
                             [] err = ErrUserUnderAge -> "User under age"
                             [] err = ErrUnauthorized -> "Unauthorized"
                             [] err = ErrForbidden -> "Forbidden"
                             [] err = ErrInvalidToken -> "Invalid token"
                             [] err = ErrExpiredToken -> "Token has expired"
                             [] OTHER -> "Internal server error"]

\* c.Cookie("gin_api_refresh_token"): an absent cookie is read as ""
CookieValue(cookie) == IF cookie.present THEN cookie.value ELSE EmptyString

\* AuthHandler.RefreshToken: the service result and the response written
HandlerRefreshToken(cookie, table, now, key, d, dbFails) ==
    LET refreshToken == CookieValue(cookie)
        r == RefreshToken(refreshToken, table, now, key, d, dbFails)
    IN  [arg |-> refreshToken, err |-> r.err, bundle |-> r.bundle,
         resp |-> IF r.err # ErrNil THEN AuthHandlerError(NoResp, r.err)
                  ELSE [NoResp EXCEPT !.status = StatusOK,
                                      !.SetCookie = r.bundle[1].RefreshToken]]

\* ------------------------------------------------------- codec behaviours
NoResult == [src |-> "none", tok |-> EmptyString, issued |-> 0, at |-> 0,
             err |-> ErrNil, claims |-> NilClaims]
NoIssue == [access |-> 0, refresh |-> 0, accessOnly |-> 0]
NoRead == [access |-> <<>>, refresh |-> <<>>]

Min(a, b) == IF a < b THEN a ELSE b

\* a token whose signature segment was changed: no secret verifies it
TamperSignature(tokenString) == <<[tokenString[1] EXCEPT !.key = "tampered"]>>

\* token strings this manager did not sign: tampered ones, ones signed with
\* another secret or by another method, text that is no token, nothing
ForeignTokens(user, now, key, d) ==
    {[kind |-> "tampered", at |-> t,
      tok |-> TamperSignature(GenerateAccessToken(user, t, key, d))] : t \in {0, now}}
    \cup {[kind |-> "wrongSecret", at |-> t, tok |-> GenerateAccessToken(user, t, k2, d)] :
        t \in {0, now}, k2 \in Secrets \ {key}}
    \cup {[kind |-> "wrongMethod", at |-> now,
           tok |-> <<[GenerateAccessToken(user, now, key, d)[1] EXCEPT !.alg = "none"]>>],
          [kind |-> "malformed", at |-> 0, tok |-> <<Junk>>],
          [kind |-> "malformed", at |-> 0, tok |-> <<Junk, Junk>>],
          [kind |-> "empty", at |-> 0, tok |-> EmptyString]}

InitConfig ==
    /\ clock = StartTime
    /\ secretKey \in Secrets
    /\ tokenDuration \in Durations

InitCodecVars ==
    /\ cBundle = <<>>
    /\ cAccess = <<>>
    /\ cResult = NoResult
    /\ cIssuedAt = NoIssue
    /\ cRead = NoRead

InitCodec ==
    /\ InitConfig
    /\ users = [i \in UserIds |-> NoUser]
    /\ creds = {}
    /\ cUser \in [ID : UserIds, Role : {RoleUser, RoleAdmin}]
    /\ InitCodecVars
    /\ gReq = NoReq
    /\ gPc = "idle"
    /\ gCtx = NoCtx
    /\ gResp = NoResp
    /\ gCalls = <<>>
    /\ sCall = NoCall
    /\ InitRBACVars
    /\ InitRegVars

\* time passes
Tick ==
    /\ clock < MaxTime
    /\ clock' = clock + 1
    /\ UNCHANGED <<secretKey, tokenDuration, users, creds, codecVars, rbacVars, svcVars, gateVars, regVars>>

\* the result of one ValidateToken call, with the token string it was applied
\* to, the time that token was issued at and the time of the call
Validated(src, tokenString, issued) ==
    [src |-> src, tok |-> tokenString, issued |-> issued, at |-> clock]
        @@ ValidateToken(tokenString, clock, secretKey)

CodecGenerateToken ==
    /\ \E nowR \in clock..Min(clock + 1, MaxTime) :
          /\ cBundle' = <<GenerateToken(cUser, clock, nowR, secretKey, tokenDuration)>>
          /\ cIssuedAt' = [cIssuedAt EXCEPT !.access = clock, !.refresh = nowR]
          /\ clock' = nowR
    /\ cRead' = NoRead
    /\ UNCHANGED <<secretKey, tokenDuration, users, creds, cUser, cAccess, cResult, rbacVars, svcVars, gateVars, regVars>>

CodecGenerateAccessToken ==
    /\ cAccess' = <<GenerateAccessToken(cUser, clock, secretKey, tokenDuration)>>
    /\ cIssuedAt' = [cIssuedAt EXCEPT !.accessOnly = clock]
    /\ UNCHANGED <<clock, secretKey, tokenDuration, users, creds, cUser, cBundle, cResult, cRead,
                   rbacVars, svcVars, gateVars, regVars>>

CodecValidateAccess ==
    /\ cBundle # <<>>
    /\ cResult' = Validated("access", cBundle[1].AccessToken, cIssuedAt.access)
    /\ cRead' = [cRead EXCEPT !.access = IF cResult'.err = ErrNil THEN <<cResult'.claims>> ELSE <<>>]
    /\ UNCHANGED <<clock, secretKey, tokenDuration, users, creds, cUser, cBundle, cAccess, cIssuedAt,
                   rbacVars, svcVars, gateVars, regVars>>

CodecValidateRefresh ==
    /\ cBundle # <<>>
    /\ cResult' = Validated("refresh", cBundle[1].RefreshToken, cIssuedAt.refresh)
    /\ cRead' = [cRead EXCEPT !.refresh = IF cResult'.err = ErrNil THEN <<cResult'.claims>> ELSE <<>>]
    /\ UNCHANGED <<clock, secretKey, tokenDuration, users, creds, cUser, cBundle, cAccess, cIssuedAt,
                   rbacVars, svcVars, gateVars, regVars>>

CodecValidateAccessOnly ==
    /\ cAccess # <<>>
    /\ cResult' = Validated("accessOnly", cAccess[1], cIssuedAt.accessOnly)
    /\ UNCHANGED <<clock, secretKey, tokenDuration, users, creds, cUser, cBundle, cAccess, cIssuedAt,
                   cRead, rbacVars, svcVars, gateVars, regVars>>

\* ValidateToken of a token string this manager did not sign
CodecValidateForeign ==
    /\ \E x \in ForeignTokens(cUser, clock, secretKey, tokenDuration) :
          cResult' = Validated(x.kind, x.tok, x.at)
    /\ UNCHANGED <<clock, secretKey, tokenDuration, users, creds, cUser, cBundle, cAccess, cIssuedAt,
                   cRead, rbacVars, svcVars, gateVars, regVars>>

\* -------------------------------------------------------- gate behaviours
InitGate ==
    /\ clock = StartTime
    /\ secretKey = "secret1"
    /\ tokenDuration \in Durations
    /\ \E st \in [UserIds -> {"absent", "active", "inactive"}] :
          users = [i \in UserIds |->
                     IF st[i] = "absent" THEN NoUser
                     ELSE [NoUser EXCEPT !.present = TRUE, !.ID = i,
                                         !.IsActive = (st[i] = "active")]]
    /\ creds = {}
    /\ cUser = [ID |-> 1, Role |-> RoleUser]
    /\ InitCodecVars
    /\ gReq = NoReq
    /\ gPc = "idle"
    /\ gCtx = NoCtx
    /\ gResp = NoResp
    /\ gCalls = <<>>
    /\ sCall = NoCall
    /\ InitRBACVars
    /\ InitRegVars

\* a renewal attempted after any validation failure
ShouldAutoRefresh_AnyError(err) == err # ErrNil

\* the condition of lines 47 and 84: only an expired token is renewed
ShouldAutoRefresh(err) == err = ErrExpiredToken

\* a renewal that forgets the X-Token-Type header
RenewalHeaders_NoTokenType(resp, newAccessToken) ==
    [resp EXCEPT !.XNewAccessToken = newAccessToken]

\* c.Header("X-New-Access-Token", newAccessToken); c.Header("X-Token-Type", "Bearer")
RenewalHeaders(resp, newAccessToken) ==
    [resp EXCEPT !.XNewAccessToken = newAccessToken, !.XTokenType = "Bearer"]

\* an OptionalAuth that rejects like RequireAuth
FailResp_AlwaysReject(gate, resp, err) == handleAuthError(resp, err)

\* what the caller of tryAutoRefresh does when validation or renewal failed
\* with err: RequireAuth answers through handleAuthError, OptionalAuth calls
\* c.Next() with nothing attached
FailResp(gate, resp, err) ==
    IF gate = "RequireAuth" THEN handleAuthError(resp, err) ELSE HandlerResponse(resp)

\* a RequireAuth that forgets to return after handleAuthError
FailCalls_AlwaysNext(gate, calls, ctx) == Append(calls, NextCall(ctx))

FailCalls(gate, calls, ctx) ==
    IF gate = "RequireAuth" THEN calls ELSE Append(calls, NextCall(ctx))

\* RequireAuth, steps 1 and 2: the Authorization header
RequireAuth ==
    /\ gPc = "idle"
    /\ sCall = NoCall
    /\ \E hi \in HeaderInputs(secretKey, tokenDuration) :
          /\ gReq' = [gate |-> "RequireAuth", authHeader |-> hi.h, bearerKind |-> hi.kind,
                      cookie |-> UnreadCookie]
          /\ gCtx' = NoCtx
          /\ gCalls' = <<>>
          /\ IF BearerFormat(hi.h)
             THEN gPc' = "validate" /\ gResp' = NoResp
             ELSE gPc' = "done" /\ gResp' = handleAuthError(NoResp, ErrUnauthorized)
    /\ UNCHANGED <<clock, secretKey, tokenDuration, users, creds, codecVars, rbacVars, svcVars, regVars>>

\* OptionalAuth: the Authorization header
OptionalAuth ==
    /\ gPc = "idle"
    /\ sCall = NoCall
    /\ \E hi \in HeaderInputs(secretKey, tokenDuration) :
          /\ gReq' = [gate |-> "OptionalAuth", authHeader |-> hi.h, bearerKind |-> hi.kind,
                      cookie |-> UnreadCookie]
          /\ gCtx' = NoCtx
          /\ IF BearerFormat(hi.h)
             THEN gPc' = "validate" /\ gResp' = NoResp /\ gCalls' = <<>>
             ELSE gPc' = "done" /\ gResp' = HandlerResponse(NoResp) /\ gCalls' = <<NextCall(NoCtx)>>
    /\ UNCHANGED <<clock, secretKey, tokenDuration, users, creds, codecVars, rbacVars, svcVars, regVars>>

\* a gate that looks the token's identity up and wants it present and active
GateValidate_ChecksIdentity(gate) ==
    /\ gPc = "validate"
    /\ gReq.gate = gate
    /\ LET token == BearerToken(gReq.authHeader)
           t == ValidateToken(token, clock, secretKey)
           f == FindByID(users, t.claims.UserID, FALSE)
           v == IF t.err = ErrNil /\ (f.err # ErrNil \/ ~f.user.IsActive)
                THEN [err |-> ErrUnauthorized, claims |-> NilClaims]
                ELSE t
           call == Call("ValidateToken", token, v.err, v.claims, EmptyString)
       IN  IF v.err = ErrNil
           THEN /\ gCtx' = SetIdentity(v.claims)
                /\ gCalls' = <<call, NextCall(SetIdentity(v.claims))>>
                /\ gResp' = HandlerResponse(gResp)
                /\ gPc' = "done"
           ELSE IF ShouldAutoRefresh(v.err)
           THEN /\ gCalls' = <<call>>
                /\ gPc' = "refresh"
                /\ UNCHANGED <<gCtx, gResp>>
           ELSE /\ gCalls' = FailCalls(gate, <<call>>, gCtx)
                /\ gResp' = FailResp(gate, gResp, v.err)
                /\ gPc' = "done"
                /\ UNCHANGED gCtx
    /\ UNCHANGED <<clock, secretKey, tokenDuration, users, creds, codecVars, rbacVars, svcVars, regVars, gReq>>

\* step 3 of RequireAuth and of OptionalAuth: ValidateToken of the bearer token
GateValidate(gate) ==
    /\ gPc = "validate"
    /\ gReq.gate = gate
    /\ LET token == BearerToken(gReq.authHeader)
           v == ValidateToken(token, clock, secretKey)
           call == Call("ValidateToken", token, v.err, v.claims, EmptyString)
       IN  IF v.err = ErrNil
           THEN /\ gCtx' = SetIdentity(v.claims)
                /\ gCalls' = <<call, NextCall(SetIdentity(v.claims))>>
                /\ gResp' = HandlerResponse(gResp)
                /\ gPc' = "done"
           ELSE IF ShouldAutoRefresh(v.err)
           THEN /\ gCalls' = <<call>>
                /\ gPc' = "refresh"
                /\ UNCHANGED <<gCtx, gResp>>
           ELSE /\ gCalls' = FailCalls(gate, <<call>>, gCtx)
                /\ gResp' = FailResp(gate, gResp, v.err)
                /\ gPc' = "done"
                /\ UNCHANGED gCtx
    /\ UNCHANGED <<clock, secretKey, tokenDuration, users, creds, codecVars, rbacVars, svcVars, regVars, gReq>>

RequireAuthValidate == GateValidate("RequireAuth")

OptionalAuthValidate == GateValidate("OptionalAuth")

\* tryAutoRefresh, steps 1 to 3: the cookie, RefreshAccessToken, the headers
tryAutoRefresh ==
    /\ gPc = "refresh"
    /\ \E ck \in CookieInputs(secretKey, tokenDuration) :
          /\ gReq' = [gReq EXCEPT !.cookie = ck]
          /\ IF ~ck.present
             THEN /\ gCalls' = FailCalls(gReq.gate, gCalls, gCtx)
                  /\ gResp' = FailResp(gReq.gate, gResp, gCalls[1].err)
                  /\ gPc' = "done"
             ELSE \E dbFails \in BOOLEAN :
                  LET r == RefreshAccessToken(ck.value, users, clock, secretKey,
                                              tokenDuration, dbFails)
                      call == Call("RefreshAccessToken", ck.value, r.err, NilClaims, r.token)
                  IN  IF r.err # ErrNil
                      THEN /\ gCalls' = FailCalls(gReq.gate, Append(gCalls, call), gCtx)
                           /\ gResp' = FailResp(gReq.gate, gResp, gCalls[1].err)
                           /\ gPc' = "done"
                      ELSE /\ gCalls' = Append(gCalls, call)
                           /\ gResp' = RenewalHeaders(gResp, r.token)
                           /\ gPc' = "revalidate"
    /\ UNCHANGED <<clock, secretKey, tokenDuration, users, creds, codecVars, rbacVars, svcVars, regVars, gCtx>>

\* tryAutoRefresh, step 4: ValidateToken of the new access token, then the caller
tryAutoRefreshValidate ==
    /\ gPc = "revalidate"
    /\ LET v == ValidateToken(gResp.XNewAccessToken, clock, secretKey)
           call == Call("ValidateToken", gResp.XNewAccessToken, v.err, v.claims, EmptyString)
       IN  IF v.err # ErrNil
           THEN /\ gCalls' = FailCalls(gReq.gate, Append(gCalls, call), gCtx)
                /\ gResp' = FailResp(gReq.gate, gResp, gCalls[1].err)
                /\ UNCHANGED gCtx
           ELSE /\ gCtx' = SetIdentity(v.claims)
                /\ gCalls' = gCalls \o <<call, NextCall(SetIdentity(v.claims))>>
                /\ gResp' = HandlerResponse(gResp)
    /\ gPc' = "done"
    /\ UNCHANGED <<clock, secretKey, tokenDuration, users, creds, codecVars, rbacVars, svcVars, regVars, gReq>>

\* the response has been written; the server waits for the next request
GateReturn ==
    /\ gPc = "done"
    /\ gPc' = "idle"
    /\ gReq' = NoReq
    /\ gCtx' = NoCtx
    /\ gResp' = NoResp
    /\ gCalls' = <<>>
    /\ UNCHANGED <<clock, secretKey, tokenDuration, users, creds, codecVars, rbacVars, svcVars, regVars>>

NextGate ==
    \/ Tick
    \/ GateReturn
    \/ RequireAuth
    \/ OptionalAuth
    \/ RequireAuthValidate
    \/ OptionalAuthValidate
    \/ tryAutoRefresh
    \/ tryAutoRefreshValidate

SpecGate == InitGate /\ [][NextGate]_vars

\* ------------------------------------------------- auth service behaviours
\* the identities have their usernames and emails; an identity may be
\* inactive, and may have lost its Credential
InitAuth ==
    /\ clock = StartTime
    /\ secretKey = "secret1"
    /\ tokenDuration \in Durations
    /\ \E st \in [UserIds -> {"absent", "active", "inactive", "nocredential"}] :
          /\ users = [i \in UserIds |->
                        IF st[i] = "absent" THEN NoUser
                        ELSE [NoUser EXCEPT !.present = TRUE, !.ID = i,
                                            !.Username = Usernames[i], !.Email = Emails[i],
                                            !.IsActive = (st[i] # "inactive")]]
          /\ creds = {i \in UserIds : st[i] \in {"active", "inactive"}}
    /\ cUser = [ID |-> 1, Role |-> RoleUser]
    /\ InitCodecVars
    /\ gReq = NoReq
    /\ gPc = "idle"
    /\ gCtx = NoCtx
    /\ gResp = NoResp
    /\ gCalls = <<>>
    /\ sCall = NoCall
    /\ InitRBACVars
    /\ InitRegVars

\* one Login call
AuthLogin ==
    /\ gPc = "idle"
    /\ sCall = NoCall
    /\ \E req \in LoginRequests, dbFailsUser \in BOOLEAN, dbFailsCred \in BOOLEAN :
          LET r == Login(req, users, creds, clock, secretKey, tokenDuration,
                         dbFailsUser, dbFailsCred)
          IN  sCall' = [NoCall EXCEPT !.op = "Login", !.req = req, !.at = clock,
                                      !.dbFails = <<dbFailsUser, dbFailsCred>>,
                                      !.err = r.err, !.bundle = r.bundle]
    /\ UNCHANGED <<clock, secretKey, tokenDuration, users, creds, codecVars, rbacVars, gateVars, regVars>>

\* one RefreshToken call
AuthRefreshToken ==
    /\ gPc = "idle"
    /\ sCall = NoCall
    /\ \E x \in HeldTokens(secretKey, tokenDuration), dbFails \in BOOLEAN :
          LET r == RefreshToken(x.tok, users, clock, secretKey, tokenDuration, dbFails)
          IN  sCall' = [NoCall EXCEPT !.op = "RefreshToken", !.arg = x.tok, !.kind = x.kind,
                                      !.at = clock, !.dbFails = <<dbFails>>,
                                      !.err = r.err, !.bundle = r.bundle]
    /\ UNCHANGED <<clock, secretKey, tokenDuration, users, creds, codecVars, rbacVars, gateVars, regVars>>

\* a service that accepts each refresh token once
AuthRefreshTokenAgain_SingleUse ==
    /\ gPc = "idle"
    /\ sCall.op = "RefreshToken"
    /\ sCall.err = ErrNil
    /\ sCall.uses < MaxUses
    /\ \E dbFails \in BOOLEAN :
          sCall' = [sCall EXCEPT !.at = clock, !.dbFails = <<dbFails>>,
                                 !.err = ErrInvalidToken, !.bundle = <<>>,
                                 !.uses = @ + 1]
    /\ UNCHANGED <<clock, secretKey, tokenDuration, users, creds, codecVars, rbacVars, gateVars, regVars>>

\* RefreshToken called once more, now or later, with the refresh token it has
\* just returned a new bundle for; uses counts the earlier successful calls
AuthRefreshTokenAgain ==
    /\ gPc = "idle"
    /\ sCall.op = "RefreshToken"
    /\ sCall.err = ErrNil
    /\ sCall.uses < MaxUses
    /\ \E dbFails \in BOOLEAN :
          LET r == RefreshToken(sCall.arg, users, clock, secretKey, tokenDuration, dbFails)
          IN  sCall' = [sCall EXCEPT !.at = clock, !.dbFails = <<dbFails>>,
                                     !.err = r.err, !.bundle = r.bundle,
                                     !.uses = @ + 1]
    /\ UNCHANGED <<clock, secretKey, tokenDuration, users, creds, codecVars, rbacVars, gateVars, regVars>>

\* POST /api/v1/auth/refresh
AuthHandlerRefreshToken ==
    /\ gPc = "idle"
    /\ sCall = NoCall
    /\ \E cookie \in CookieInputs(secretKey, tokenDuration), dbFails \in BOOLEAN :
          LET h == HandlerRefreshToken(cookie, users, clock, secretKey, tokenDuration, dbFails)
          IN  sCall' = [NoCall EXCEPT !.op = "AuthHandler.RefreshToken", !.arg = h.arg,
                                      !.kind = cookie.kind, !.at = clock,
                                      !.dbFails = <<dbFails>>, !.err = h.err,
                                      !.bundle = h.bundle, !.resp = h.resp]
    /\ UNCHANGED <<clock, secretKey, tokenDuration, users, creds, codecVars, rbacVars, gateVars, regVars>>

\* RefreshAccessToken called with the refresh token that RefreshToken was just
\* called with, the stores and the clock being the same
AuthRefreshAccessToken ==
    /\ sCall.op = "RefreshToken"
    /\ sCall.at = clock
    /\ \E dbFails \in BOOLEAN :
          LET r == RefreshAccessToken(sCall.arg, users, clock, secretKey, tokenDuration, dbFails)
          IN  sCall' = [sCall EXCEPT !.op = "RefreshAccessToken",
                                     !.dbFails = Append(@, dbFails),
                                     !.accessErr = r.err, !.accessToken = r.token]
    /\ UNCHANGED <<clock, secretKey, tokenDuration, users, creds, codecVars, rbacVars, gateVars, regVars>>

\* between two requests an administrator deletes an identity
\* (userRepositoryImpl.Delete; its credentials row goes with it)
UserDeleted ==
    /\ gPc = "idle"
    /\ sCall = NoCall
    /\ \E id \in UserIds :
          /\ users[id].present
          /\ users' = Delete(users, id, FALSE).table
          /\ creds' = creds \ {id}
    /\ UNCHANGED <<clock, secretKey, tokenDuration, codecVars, rbacVars, svcVars, gateVars, regVars>>

\* between two requests an identity is deactivated (User.Deactivate, saved
\* with userRepositoryImpl.Update)
UserDeactivated ==
    /\ gPc = "idle"
    /\ sCall = NoCall
    /\ \E id \in UserIds :
          /\ users[id].present
          /\ users[id].IsActive
          /\ users' = [users EXCEPT ![id].IsActive = FALSE]
    /\ UNCHANGED <<clock, secretKey, tokenDuration, creds, codecVars, rbacVars, svcVars, gateVars, regVars>>

\* the call has returned to its caller
AuthReturn ==
    /\ sCall # NoCall
    /\ sCall' = NoCall
    /\ UNCHANGED <<clock, secretKey, tokenDuration, users, creds, codecVars, rbacVars, gateVars, regVars>>

NextAuth ==
    \/ NextGate
    \/ AuthLogin
    \/ AuthRefreshToken
    \/ AuthRefreshTokenAgain
    \/ AuthHandlerRefreshToken
    \/ AuthRefreshAccessToken
    \/ AuthReturn
    \/ UserDeleted
    \/ UserDeactivated

SpecAuth == InitAuth /\ [][NextAuth]_vars

\* ------------------------------------------------- RBAC middleware behaviours
InitRBAC ==
    /\ InitConfig
    /\ users = [i \in UserIds |-> NoUser]
    /\ creds = {}
    /\ cUser = [ID |-> 1, Role |-> RoleUser]
    /\ InitCodecVars
    /\ gReq = NoReq
    /\ gPc = "idle"
    /\ gCtx = NoCtx
    /\ gResp = NoResp
    /\ gCalls = <<>>
    /\ sCall = NoCall
    /\ bReq \in RBACRequests
    /\ bOut = NoRBACOutcomes
    /\ InitRegVars

\* the request reaches a route guarded by RequireAdmin
RBACRequireAdmin ==
    /\ ~bOut.RequireAdmin.ran
    /\ bOut' = [bOut EXCEPT !.RequireAdmin = RequireAdmin(bReq)]
    /\ UNCHANGED <<clock, secretKey, tokenDuration, users, creds, codecVars, svcVars, gateVars,
                   regVars, bReq>>

\* the request reaches a route guarded by RequireOwnership
RBACRequireOwnership ==
    /\ ~bOut.RequireOwnership.ran
    /\ bOut' = [bOut EXCEPT !.RequireOwnership = RequireOwnership(bReq)]
    /\ UNCHANGED <<clock, secretKey, tokenDuration, users, creds, codecVars, svcVars, gateVars,
                   regVars, bReq>>

\* the request reaches a route guarded by RequireOwnershipOrAdmin
RBACRequireOwnershipOrAdmin ==
    /\ ~bOut.RequireOwnershipOrAdmin.ran
    /\ bOut' = [bOut EXCEPT !.RequireOwnershipOrAdmin = RequireOwnershipOrAdmin(bReq)]
    /\ UNCHANGED <<clock, secretKey, tokenDuration, users, creds, codecVars, svcVars, gateVars,
                   regVars, bReq>>

\* the next request, with another context and route id
RBACNextRequest ==
    /\ \E m \in DOMAIN bOut : bOut[m].ran
    /\ bReq' \in RBACRequests
    /\ bOut' = NoRBACOutcomes
    /\ UNCHANGED <<clock, secretKey, tokenDuration, users, creds, codecVars, svcVars, gateVars,
                   regVars>>

NextRBAC ==
    \/ RBACRequireAdmin
    \/ RBACRequireOwnership
    \/ RBACRequireOwnershipOrAdmin
    \/ RBACNextRequest

SpecRBAC == InitRBAC /\ [][NextRBAC]_vars

\* ------------------------------------- an access policy behind RequireAuth
\* a context in which user_role was set as a plain string
ContextValues_RoleAsString(ctx, id) ==
    [user_id |-> IF ctx.has THEN StringValue(ctx.user_id) ELSE NoValue,
     user_role |-> IF ctx.has THEN PlainRoleValue(ctx.user_role) ELSE NoValue,
     id |-> id]

\* what c.Get finds after the gate's c.Set("user_id", claims.UserID) and
\* c.Set("user_role", claims.Role): a string and a model.UserRole, the
\* types of the two fields of model.Claims; id is c.Param("id")
ContextValues(ctx, id) ==
    [user_id |-> IF ctx.has THEN StringValue(ctx.user_id) ELSE NoValue,
     user_role |-> IF ctx.has THEN UserRoleValue(ctx.user_role) ELSE NoValue,
     id |-> id]

\* c.Next() of RequireAuth: the request reaches the RBAC middleware of its route
PolicyEnter ==
    /\ gPc = "done"
    /\ gReq.gate = "RequireAuth"
    /\ gCalls # <<>>
    /\ gCalls[Len(gCalls)].op = "Next"
    /\ bReq = NoRBACRequest
    /\ \E id \in {0} \cup UserIds : bReq' = ContextValues(gCtx, id)
    /\ bOut' = NoRBACOutcomes
    /\ UNCHANGED <<clock, secretKey, tokenDuration, users, creds, codecVars, svcVars, gateVars,
                   regVars>>

PolicyRequireAdmin == bReq # NoRBACRequest /\ RBACRequireAdmin
PolicyRequireOwnership == bReq # NoRBACRequest /\ RBACRequireOwnership
PolicyRequireOwnershipOrAdmin == bReq # NoRBACRequest /\ RBACRequireOwnershipOrAdmin

\* the response has been written; the server waits for the next request
PolicyReturn ==
    /\ gPc = "done"
    /\ gPc' = "idle"
    /\ gReq' = NoReq
    /\ gCtx' = NoCtx
    /\ gResp' = NoResp
    /\ gCalls' = <<>>
    /\ bReq' = NoRBACRequest
    /\ bOut' = NoRBACOutcomes
    /\ UNCHANGED <<clock, secretKey, tokenDuration, users, creds, codecVars, svcVars, regVars>>

NextPolicy ==
    \/ Tick
    \/ RequireAuth
    \/ RequireAuthValidate
    \/ tryAutoRefresh
    \/ tryAutoRefreshValidate
    \/ PolicyEnter
    \/ PolicyRequireAdmin
    \/ PolicyRequireOwnership
    \/ PolicyRequireOwnershipOrAdmin
    \/ PolicyReturn

SpecPolicy == InitGate /\ [][NextPolicy]_vars

\* ------------------------------------------------------ gate: properties
CallsOf(op) == {i \in DOMAIN gCalls : gCalls[i].op = op}
HandlerRuns == Cardinality(CallsOf("Next"))
GateDone(gate) == gPc = "done" /\ gReq.gate = gate
\* the bearer token was validated as expired
BearerExpired ==
    /\ Len(gCalls) >= 1
    /\ gCalls[1].op = "ValidateToken"
    /\ gCalls[1].err = ErrExpiredToken
\* RefreshAccessToken was called and returned err
RefreshReturned(err) ==
    /\ Len(gCalls) >= 2
    /\ gCalls[2].op = "RefreshAccessToken"
    /\ gCalls[2].err = err
RefreshFailed ==
    /\ Len(gCalls) >= 2
    /\ gCalls[2].op = "RefreshAccessToken"
    /\ gCalls[2].err # ErrNil
\* the new access token was validated with result err
RevalidateReturned(err) ==
    /\ Len(gCalls) >= 3
    /\ gCalls[3].op = "ValidateToken"
    /\ gCalls[3].arg = gCalls[2].out
    /\ gCalls[3].err = err
\* the request went on to the handler with the identity of the renewed token
RenewedOutcome ==
    /\ gResp.XNewAccessToken = gCalls[2].out
    /\ gResp.XNewAccessToken # EmptyString
    /\ gResp.XTokenType = "Bearer"
    /\ HandlerRuns = 1
    /\ gCalls[Len(gCalls)].op = "Next"
    /\ RevalidateReturned(ErrNil)
    /\ gCalls[Len(gCalls)].ctx = [has |-> TRUE, user_id |-> gCalls[3].claims.UserID,
                                  user_role |-> gCalls[3].claims.Role]
    /\ gResp.status = StatusOK
    /\ ~gResp.aborted

C4_RenewalFailureIsExpired ==
    (GateDone("RequireAuth") /\ BearerExpired
        /\ (gReq.cookie.kind = "absent" \/ RefreshFailed)) =>
        /\ gResp.status = StatusUnauthorized
        /\ gResp.error = "Token has expired"
        /\ gResp.aborted
        /\ gResp.XNewAccessToken = EmptyString
        /\ HandlerRuns = 0

C4_Witness ==
    /\ GateDone("RequireAuth")
    /\ BearerExpired
    /\ RefreshReturned(ErrForbidden)
    /\ gResp.status = StatusUnauthorized

\* C5: in both gates RefreshAccessToken is called only after ValidateToken of
\* the bearer token failed as expired, and at most once per request.
C5_RefreshOnlyAfterExpired ==
    /\ Cardinality(CallsOf("RefreshAccessToken")) <= 1
    /\ \A i \in CallsOf("RefreshAccessToken") :
          /\ i = 2
          /\ gCalls[1].op = "ValidateToken"
          /\ gCalls[1].arg = BearerToken(gReq.authHeader)
          /\ gCalls[1].err = ErrExpiredToken
          /\ BearerFormat(gReq.authHeader)
    /\ gPc = "refresh" => BearerExpired

C5_Witness ==
    /\ gPc = "done"
    /\ gReq.gate = "OptionalAuth"
    /\ CallsOf("RefreshAccessToken") = {2}

\* C6: under RequireAuth the handler runs only directly after a successful
\* ValidateToken of the same request, with user_id and user_role taken from
\* the claims of that call; after a renewal that call validated the newly
\* issued access token.
C6_HandlerAfterValidation ==
    gReq.gate = "RequireAuth" =>
        \A i \in CallsOf("Next") :
            /\ i > 1
            /\ gCalls[i - 1].op = "ValidateToken"
            /\ gCalls[i - 1].err = ErrNil
            /\ gCalls[i].ctx = [has |-> TRUE, user_id |-> gCalls[i - 1].claims.UserID,
                                user_role |-> gCalls[i - 1].claims.Role]
            /\ gCtx = gCalls[i].ctx
            /\ gCalls[i - 1].arg = IF CallsOf("RefreshAccessToken") # {}
                                   THEN gCalls[2].out
                                   ELSE BearerToken(gReq.authHeader)

C6_Witness ==
    /\ GateDone("RequireAuth")
    /\ CallsOf("RefreshAccessToken") = {2}
    /\ CallsOf("Next") = {4}

\* C7 as stated: a token issued as the refresh half of a bundle never makes
\* RequireAuth continue, and a token issued as an access token is never
\* accepted by RefreshAccessToken.
C7_NotInterchangeable ==
    /\ (gReq.gate = "RequireAuth" /\ gReq.bearerKind = "refresh" /\ Len(gCalls) = 2)
          => gCalls[2].op # "Next"
    /\ (gReq.cookie.kind = "access" /\ Len(gCalls) >= 2 /\ gCalls[2].op = "RefreshAccessToken")
          => gCalls[2].err # ErrNil

\* the header is not of the form `Bearer <token>` with a token in it
NotBearerWithToken(h) ==
    ~(Len(h) >= 3 /\ h[1] = Word("Bearer") /\ h[2] = Space)
\* the header is absent, or does not start with `Bearer` and a space
NotBearerPrefix(h) ==
    ~(Len(h) >= 2 /\ h[1] = Word("Bearer") /\ h[2] = Space)
RejectedUnauthorized ==
    /\ gPc = "done"
    /\ gResp.status = StatusUnauthorized
    /\ gResp.error = "Unauthorized"
    /\ gResp.aborted
    /\ gCalls = <<>>

\* C8 as stated: RequireAuth rejects with 401 unauthorized, without calling
\* ValidateToken or the handler, every request whose header is absent or not
\* of the form `Bearer <token>`, an empty token after `Bearer ` included.
C8_MalformedHeaderRejected ==
    (gReq.gate = "RequireAuth" /\ NotBearerWithToken(gReq.authHeader)) => RejectedUnauthorized

\* C8 amended: RequireAuth rejects so every request whose header is absent,
\* has no space, or has something else than `Bearer` before its first space;
\* `Bearer ` followed by nothing passes the format check, and the empty token
\* is rejected by ValidateToken with 401 invalid token, the handler not run.
C8_HeaderFormatRejected ==
    gReq.gate = "RequireAuth" =>
        /\ NotBearerPrefix(gReq.authHeader) => RejectedUnauthorized
        /\ (gReq.authHeader = <<Word("Bearer"), Space>> /\ gPc = "done") =>
              /\ Len(gCalls) = 1
              /\ gCalls[1].op = "ValidateToken"
              /\ gCalls[1].arg = EmptyString
              /\ gResp.status = StatusUnauthorized
              /\ gResp.error = "Invalid token"

C8_Witness ==
    /\ gReq.gate = "RequireAuth"
    /\ gReq.authHeader = <<Word("Bearer"), Space>>
    /\ gPc = "done"
    /\ gResp.error = "Invalid token"

\* C9: OptionalAuth never rejects: the handler runs exactly once, no 401 is
\* written, and user_id / user_role are attached exactly when a ValidateToken
\* call of the request succeeded.
C9_OptionalNeverRejects ==
    GateDone("OptionalAuth") =>
        /\ HandlerRuns = 1
        /\ gCalls[Len(gCalls)].op = "Next"
        /\ gResp.status = StatusOK
        /\ ~gResp.aborted
        /\ gCalls[Len(gCalls)].ctx = gCtx
        /\ gCtx.has <=> (\E i \in CallsOf("ValidateToken") : gCalls[i].err = ErrNil)
        /\ gCtx.has => \E i \in CallsOf("ValidateToken") :
                          /\ gCalls[i].err = ErrNil
                          /\ gCtx.user_id = gCalls[i].claims.UserID
                          /\ gCtx.user_role = gCalls[i].claims.Role

C9_Witness ==
    /\ GateDone("OptionalAuth")
    /\ BearerExpired
    /\ RefreshReturned(ErrUnauthorized)
    /\ HandlerRuns = 1
    /\ ~gCtx.has

\* ------------------------------------------------- registration behaviours
InitReg ==
    /\ InitConfig
    /\ users = [i \in UserIds |-> NoUser]
    /\ creds = {}
    /\ cUser = [ID |-> 1, Role |-> RoleUser]
    /\ InitCodecVars
    /\ gReq = NoReq
    /\ gPc = "idle"
    /\ gCtx = NoCtx
    /\ gResp = NoResp
    /\ gCalls = <<>>
    /\ sCall = NoCall
    /\ InitRBACVars
    /\ InitRegVars

\* Register returns (nil, err)
ReturnError(p, err) ==
    /\ rRet' = [rRet EXCEPT ![p] = [returned |-> TRUE, err |-> err, bundle |-> <<>>]]
    /\ rPc' = [rPc EXCEPT ![p] = "done"]

\* Register without the reserved-username gate
RegisterGates_NoReservedGate(req, now) ==
    IF req.BirthDate # NoDate /\ isUnder13(req.BirthDate, now) THEN ErrUserUnderAge
    ELSE ErrNil

\* Register, step 1: the age gate, then the reserved-username gate; the
\* error Register returns there, ErrNil when it goes on to step 2
RegisterGates(req, now) ==
    IF req.BirthDate # NoDate /\ isUnder13(req.BirthDate, now) THEN ErrUserUnderAge
    ELSE IF req.Username # "" /\ isReservedUsername(req.Username) THEN ErrValidation
    ELSE ErrNil

\* Register called with req: step 1, before any store is touched
RegisterCall(p, req) ==
    /\ rPc[p] = "idle"
    /\ rReq' = [rReq EXCEPT ![p] = req]
    /\ LET err == RegisterGates(req, today)
       IN  IF err # ErrNil
           THEN ReturnError(p, err)
           ELSE rPc' = [rPc EXCEPT ![p] = "create"] /\ UNCHANGED rRet
    /\ UNCHANGED <<clock, secretKey, tokenDuration, users, creds, codecVars, rbacVars, svcVars, gateVars,
                   today, nextId, rUser, rLog>>

\* a call of Register
Register(p) == \E req \in RegisterRequests : RegisterCall(p, req)

\* userRepositoryImpl.Create, the SELECT for an existing username or email
UserCreateSelect(p) ==
    /\ rPc[p] = "create"
    /\ \E dbFails \in BOOLEAN :
          IF rReq[p].Username = "" /\ rReq[p].Email = ""
          THEN rPc' = [rPc EXCEPT ![p] = "insert"] /\ UNCHANGED <<rRet, rLog>>
          ELSE IF dbFails
          THEN /\ ReturnError(p, ErrDB)
               /\ rLog' = [rLog EXCEPT ![p] = Append(@, LogEntry(p, "Create", 0, ErrDB))]
          ELSE IF ExistingUser(users, rReq[p].Username, rReq[p].Email)
          THEN /\ ReturnError(p, ErrUserExists)
               /\ rLog' = [rLog EXCEPT ![p] = Append(@, LogEntry(p, "Create", 0, ErrUserExists))]
          ELSE rPc' = [rPc EXCEPT ![p] = "insert"] /\ UNCHANGED <<rRet, rLog>>
    /\ UNCHANGED <<clock, secretKey, tokenDuration, users, creds, codecVars, rbacVars, svcVars, gateVars,
                   today, nextId, rReq, rUser>>

\* userRepositoryImpl.Create, the INSERT; the unique indexes of the table
\* refuse a username or email that a row already has
UserCreateInsert(p) ==
    /\ rPc[p] = "insert"
    /\ nextId <= MaxUsers
    /\ \E dbFails \in BOOLEAN :
          IF dbFails \/ ExistingUser(users, rReq[p].Username, rReq[p].Email)
          THEN LET err == IF dbFails THEN ErrDB ELSE ErrDuplicateKey
               IN  /\ ReturnError(p, err)
                   /\ rLog' = [rLog EXCEPT ![p] = Append(@, LogEntry(p, "Create", 0, err))]
                   /\ UNCHANGED <<users, nextId, rUser>>
          ELSE /\ users' = [users EXCEPT ![nextId] =
                               CreateUser(nextId, rReq[p].Username, rReq[p].Email)]
               /\ rUser' = [rUser EXCEPT ![p] = nextId]
               /\ nextId' = nextId + 1
               /\ rLog' = [rLog EXCEPT ![p] = Append(@, LogEntry(p, "Create", nextId, ErrNil))]
               /\ rPc' = [rPc EXCEPT ![p] = "hash"]
               /\ UNCHANGED rRet
    /\ UNCHANGED <<clock, secretKey, tokenDuration, creds, codecVars, rbacVars, svcVars, gateVars, today, rReq>>

\* a hashing failure returned without the compensating delete
RegisterHashPassword_NoDelete(p) ==
    /\ rPc[p] = "hash"
    /\ LET h == HashPassword(rReq[p].Password)
       IN  IF h.err # ErrNil
           THEN /\ rRet' = [rRet EXCEPT ![p] = [returned |-> TRUE, err |-> h.err, bundle |-> <<>>]]
                /\ rLog' = [rLog EXCEPT ![p] = Append(@, LogEntry(p, "HashPassword", rUser[p], h.err))]
                /\ rPc' = [rPc EXCEPT ![p] = "done"]
           ELSE /\ rPc' = [rPc EXCEPT ![p] = "credentials"]
                /\ UNCHANGED <<rRet, rLog>>
    /\ UNCHANGED <<clock, secretKey, tokenDuration, users, creds, codecVars, rbacVars, svcVars, gateVars,
                   today, nextId, rReq, rUser>>

\* Register, step 3: utils.HashPassword
RegisterHashPassword(p) ==
    /\ rPc[p] = "hash"
    /\ LET h == HashPassword(rReq[p].Password)
       IN  IF h.err # ErrNil
           THEN /\ rRet' = [rRet EXCEPT ![p].err = h.err]
                /\ rLog' = [rLog EXCEPT ![p] = Append(@, LogEntry(p, "HashPassword", rUser[p], h.err))]
                /\ rPc' = [rPc EXCEPT ![p] = "delete"]
           ELSE /\ rPc' = [rPc EXCEPT ![p] = "credentials"]
                /\ UNCHANGED <<rRet, rLog>>
    /\ UNCHANGED <<clock, secretKey, tokenDuration, users, creds, codecVars, rbacVars, svcVars, gateVars,
                   today, nextId, rReq, rUser>>

\* authRepositoryImpl.CreateCredentials, and on success step 5, GenerateToken
RegisterCreateCredentials(p) ==
    /\ rPc[p] = "credentials"
    /\ \E dbFails \in BOOLEAN :
          LET err == IF rUser[p] = 0 THEN ErrValidation
                     ELSE IF rUser[p] \in creds THEN ErrUserExists
                     ELSE IF dbFails THEN ErrDB ELSE ErrNil
          IN  /\ rLog' = [rLog EXCEPT ![p] = Append(@, LogEntry(p, "CreateCredentials", rUser[p], err))]
              /\ IF err # ErrNil
                 THEN /\ rRet' = [rRet EXCEPT ![p].err = err]
                      /\ rPc' = [rPc EXCEPT ![p] = "delete"]
                      /\ UNCHANGED creds
                 ELSE /\ creds' = creds \cup {rUser[p]}
                      /\ rRet' = [rRet EXCEPT ![p] =
                            [returned |-> TRUE, err |-> ErrNil,
                             bundle |-> <<GenerateToken(users[rUser[p]], clock, clock,
                                                        secretKey, tokenDuration)>>]]
                      /\ rPc' = [rPc EXCEPT ![p] = "done"]
    /\ UNCHANGED <<clock, secretKey, tokenDuration, users, codecVars, rbacVars, svcVars, gateVars,
                   today, nextId, rReq, rUser>>

\* Register, the compensation: userRepo.Delete(user.ID), its error only
\* logged, then return nil, err
RegisterDelete(p) ==
    /\ rPc[p] = "delete"
    /\ \E dbFails \in BOOLEAN :
          LET r == Delete(users, rUser[p], dbFails)
          IN  /\ users' = r.table
              /\ creds' = creds \ (IF r.err = ErrNil THEN {rUser[p]} ELSE {})
              /\ rLog' = [rLog EXCEPT ![p] = Append(@, LogEntry(p, "Delete", rUser[p], r.err))]
    /\ rRet' = [rRet EXCEPT ![p].returned = TRUE]
    /\ rPc' = [rPc EXCEPT ![p] = "done"]
    /\ UNCHANGED <<clock, secretKey, tokenDuration, codecVars, rbacVars, svcVars, gateVars,
                   today, nextId, rReq, rUser>>

NextReg ==
    \E p \in Procs :
        \/ Register(p)
        \/ UserCreateSelect(p)
        \/ UserCreateInsert(p)
        \/ RegisterHashPassword(p)
        \/ RegisterCreateCredentials(p)
        \/ RegisterDelete(p)

SpecReg == InitReg /\ [][NextReg]_vars

\* ---------------------------------------------- registration: properties
\* positions in rLog of the calls of p to op
LogOf(p, op) == {i \in DOMAIN rLog[p] : rLog[p][i].op = op}
\* p created an Identity, and hashing or Credential creation then failed
FailedAfterCreate(p) ==
    /\ \E i \in LogOf(p, "Create") : rLog[p][i].err = ErrNil
    /\ \E j \in LogOf(p, "HashPassword") \cup LogOf(p, "CreateCredentials") : rLog[p][j].err # ErrNil

\* C1: when Identity creation succeeded and hashing or Credential creation
\* then failed, Register has called the Identity store's delete with the id
\* the create returned before it returns, and it returns that failure and no
\* Token Bundle.
C1_CompensatingDelete ==
    \A p \in Procs :
        (rRet[p].returned /\ FailedAfterCreate(p)) =>
            \E i \in LogOf(p, "Create"), k \in LogOf(p, "Delete") :
                /\ rLog[p][i].err = ErrNil
                /\ rLog[p][i].id # 0
                /\ rLog[p][k].id = rLog[p][i].id
                /\ i < k
                /\ LogOf(p, "Delete") = {k}
                /\ k = Len(rLog[p])
                /\ \E j \in LogOf(p, "HashPassword") \cup LogOf(p, "CreateCredentials") :
                      /\ i < j /\ j < k
                      /\ rRet[p].err = rLog[p][j].err
                /\ rRet[p].err # ErrNil
                /\ rRet[p].bundle = <<>>

C1_Witness ==
    \E p \in Procs :
        /\ rRet[p].returned
        /\ \E j \in LogOf(p, "CreateCredentials") : rLog[p][j].err = ErrDB
        /\ \E k \in LogOf(p, "Delete") : rLog[p][k].err = ErrNil

\* C2: whenever no Register call is in progress, every Identity a Register
\* call created belongs to a call that returned success and has a Credential
\* record, whatever the stores reported, the compensating delete included.
C2_NoOrphanIdentity ==
    (\A p \in Procs : rPc[p] \in {"idle", "done"}) =>
        \A p \in Procs :
            (rUser[p] # 0 /\ users[rUser[p]].present) =>
                /\ rRet[p].err = ErrNil
                /\ rUser[p] \in creds

NextCodec ==
    \/ Tick
    \/ CodecGenerateToken
    \/ CodecGenerateAccessToken
    \/ CodecValidateAccess
    \/ CodecValidateRefresh
    \/ CodecValidateAccessOnly
    \/ CodecValidateForeign

SpecCodec == InitCodec /\ [][NextCodec]_vars

\* C10: validating, with the same secret, a token issued for an identity
\* returns claims whose UserID and Subject are the identity's id, whose
\* Issuer is the fixed issuer and whose Role is the identity's role.
C10_ClaimsMatchIdentity ==
    (cResult.src # "none" /\ cResult.err = ErrNil) =>
        /\ cResult.claims.UserID = cUser.ID
        /\ cResult.claims.Subject = cUser.ID
        /\ cResult.claims.Issuer = JWTIssuer
        /\ cResult.claims.Role = cUser.Role

\* the validated token string is a token whose expires-at has passed
ExpiredInput ==
    /\ Len(cResult.tok) = 1
    /\ cResult.tok[1].k = "jwt"
    /\ cResult.tok[1].claims.ExpiresAt <= cResult.at

\* C11: a token whose signature does not verify under the manager's secret
\* (tampered, or signed with another secret), a malformed input and the
\* empty input all make ValidateToken fail with invalid-token and nil
\* claims, never with expired-token, also when the expires-at has passed.
C11_BadSignatureIsInvalid ==
    cResult.src \in {"tampered", "wrongSecret", "wrongMethod", "malformed", "empty"} =>
        /\ cResult.err = ErrInvalidToken
        /\ cResult.claims = NilClaims

C11_Witness ==
    /\ cResult.src = "tampered"
    /\ ExpiredInput
    /\ cResult.err = ErrInvalidToken

\* an access token of this manager was validated
OwnAccessValidated == cResult.src \in {"access", "accessOnly"}

\* C12 as stated: a token issued at time t with lifetime d validates at every
\* time before t+d and fails as expired at every time after t+d.
C12_ValidUntilLifetimeEnds ==
    OwnAccessValidated =>
        /\ cResult.at < cResult.issued + tokenDuration => cResult.err = ErrNil
        /\ cResult.at > cResult.issued + tokenDuration => cResult.err = ErrExpiredToken

\* C12 amended: with e the time t+d truncated to the whole second, the token
\* validates at every time from t up to but not including e, and fails as
\* expired, not as invalid, at e and at every later time.
C12_ValidUntilTruncatedExpiry ==
    OwnAccessValidated =>
        LET e == NumericDate(cResult.issued + tokenDuration)
        IN  /\ cResult.at < e => (cResult.err = ErrNil /\ cResult.claims.ExpiresAt = e)
            /\ cResult.at >= e => (cResult.err = ErrExpiredToken /\ cResult.claims = NilClaims)

C12_Witness ==
    /\ OwnAccessValidated
    /\ cResult.issued < cResult.at
    /\ cResult.at < cResult.issued + tokenDuration
    /\ cResult.err = ErrExpiredToken

\* both tokens of the bundle were validated and their claims read back
BundleRead == cRead.access # <<>> /\ cRead.refresh # <<>>

\* C13 as stated: for every access lifetime the refresh token of a bundle has
\* an expires-at strictly later than the access token of the same bundle, as
\* read back from the two validated claims.
C13_RefreshExpiresLater ==
    BundleRead => cRead.refresh[1].ExpiresAt > cRead.access[1].ExpiresAt

\* C13 amended: the same for every access lifetime d whose refresh lifetime
\* 24 * 7 * d is at least one second longer than d; for shorter lifetimes the
\* refresh expires-at is never earlier than the access one.
C13_RefreshExpiresLaterOrSame ==
    BundleRead =>
        /\ cRead.refresh[1].ExpiresAt >= cRead.access[1].ExpiresAt
        /\ (RefreshHours * RefreshDays - 1) * tokenDuration >= SecondTicks =>
              cRead.refresh[1].ExpiresAt > cRead.access[1].ExpiresAt

C13_Witness ==
    /\ BundleRead
    /\ (RefreshHours * RefreshDays - 1) * tokenDuration >= SecondTicks
    /\ cRead.refresh[1].ExpiresAt > cRead.access[1].ExpiresAt
    /\ cRead.access[1].ExpiresAt = NumericDate(cIssuedAt.access + tokenDuration)

\* C14: GenerateToken issues the access token with expiry = issue time + the
\* access lifetime and the refresh token with expiry = issue time + 7 times
\* the access lifetime, each stored with the precision of one second.
C14_RefreshIsSevenLifetimes ==
    cBundle # <<>> =>
        /\ ClaimsOf(cBundle[1].AccessToken).ExpiresAt
              = NumericDate(cIssuedAt.access + tokenDuration)
        /\ ClaimsOf(cBundle[1].RefreshToken).ExpiresAt
              = NumericDate(cIssuedAt.refresh + 7 * tokenDuration)

\* ---------------------------------------------- auth service: properties
\* the identities the identifier of a Login request names
NamedBy(req) ==
    {id \in UserIds :
        /\ users[id].present
        /\ IF req.Username # "" THEN users[id].Username = req.Username
           ELSE req.Email # "" /\ users[id].Email = req.Email}
\* the identity is found, its credential is found, the password matches
LoginChecksPass ==
    /\ ~sCall.dbFails[1]
    /\ NamedBy(sCall.req) # {}
    /\ ~sCall.dbFails[2]
    /\ NamedBy(sCall.req) \subseteq creds
    /\ sCall.req.Password = RegisteredPassword
LoginIdentityActive == \A id \in NamedBy(sCall.req) : users[id].IsActive

\* C15: Login succeeds iff the identity is found by the supplied identifier,
\* its credential is found, the password matches and the identity is active;
\* it fails with forbidden iff the first three hold and the identity is
\* inactive; in every other case it fails with unauthorized; a failing Login
\* returns no Token Bundle, a successful one a bundle for that identity.
C15_LoginOutcome ==
    sCall.op = "Login" =>
        /\ sCall.err = ErrNil <=> (LoginChecksPass /\ LoginIdentityActive)
        /\ sCall.err = ErrForbidden <=> (LoginChecksPass /\ ~LoginIdentityActive)
        /\ sCall.err \in {ErrNil, ErrForbidden, ErrUnauthorized}
        /\ sCall.err # ErrNil => sCall.bundle = <<>>
        /\ sCall.err = ErrNil =>
              /\ Len(sCall.bundle) = 1
              /\ ClaimsOf(sCall.bundle[1].AccessToken).UserID \in NamedBy(sCall.req)
              /\ ClaimsOf(sCall.bundle[1].RefreshToken).UserID \in NamedBy(sCall.req)

\* a wrong password for an inactive identity that has a credential
C15_Witness ==
    /\ sCall.op = "Login"
    /\ sCall.dbFails = <<FALSE, FALSE>>
    /\ NamedBy(sCall.req) # {}
    /\ NamedBy(sCall.req) \subseteq creds
    /\ ~LoginIdentityActive
    /\ sCall.req.Password # RegisteredPassword
    /\ sCall.err = ErrUnauthorized

\* RefreshToken was called (and perhaps RefreshAccessToken after it)
RefreshCalled == sCall.op \in {"RefreshToken", "RefreshAccessToken"}
\* the token handed in was signed by this server
OwnToken == sCall.kind \in {"access", "refresh"}
OwnTokenExpired == OwnToken /\ ClaimsOf(sCall.arg).ExpiresAt <= sCall.at
\* the identity the claims name is in the store and the lookup works
SubjectFound ==
    /\ ~sCall.dbFails[1]
    /\ users[ClaimsOf(sCall.arg).UserID].present
SubjectActive == users[ClaimsOf(sCall.arg).UserID].IsActive
\* the bundle is newly issued, both halves, for the identity of the token
NewBundleForSubject ==
    /\ Len(sCall.bundle) = 1
    /\ \A half \in {sCall.bundle[1].AccessToken, sCall.bundle[1].RefreshToken} :
          /\ ClaimsOf(half).UserID = ClaimsOf(sCall.arg).UserID
          /\ ClaimsOf(half).Subject = ClaimsOf(sCall.arg).UserID
          /\ ClaimsOf(half).IssuedAt = NumericDate(sCall.at)
          /\ half[1].key = secretKey
    /\ ClaimsOf(sCall.bundle[1].AccessToken).ExpiresAt = NumericDate(sCall.at + tokenDuration)
    /\ ClaimsOf(sCall.bundle[1].RefreshToken).ExpiresAt
          = NumericDate(sCall.at + tokenDuration * RefreshHours * RefreshDays)

BothRefreshCalls ==
    /\ sCall.op = "RefreshAccessToken"
    /\ sCall.dbFails[1] = sCall.dbFails[2]

\* C17: for every refresh token and store state RefreshAccessToken succeeds
\* exactly when RefreshToken succeeds and fails with the same error; on
\* success it returns one new access token for the same identity; the silent
\* renewal of the gates calls RefreshAccessToken only, with the cookie's
\* token, issues no refresh token and sets no cookie.
C17_AccessOnlyRefreshAgrees ==
    /\ BothRefreshCalls =>
          /\ sCall.accessErr = sCall.err
          /\ sCall.accessErr # ErrNil => sCall.accessToken = EmptyString
          /\ sCall.accessErr = ErrNil =>
                /\ Len(sCall.accessToken) = 1
                /\ sCall.accessToken[1].key = secretKey
                /\ ClaimsOf(sCall.accessToken).UserID = ClaimsOf(sCall.arg).UserID
                /\ ClaimsOf(sCall.accessToken).IssuedAt = NumericDate(sCall.at)
                /\ ClaimsOf(sCall.accessToken).ExpiresAt = NumericDate(sCall.at + tokenDuration)
    /\ \A i \in DOMAIN gCalls :
          /\ gCalls[i].op \in {"ValidateToken", "RefreshAccessToken", "Next"}
          /\ gCalls[i].op = "RefreshAccessToken" =>
                /\ gCalls[i].arg = gReq.cookie.value
                /\ gCalls[i].err = ErrNil =>
                      /\ Len(gCalls[i].out) = 1
                      /\ ClaimsOf(gCalls[i].out).UserID = ClaimsOf(gCalls[i].arg).UserID
                      /\ ClaimsOf(gCalls[i].out).ExpiresAt <= clock + tokenDuration
    /\ gResp.SetCookie = EmptyString

C17_Witness ==
    /\ BothRefreshCalls
    /\ sCall.err = ErrNil
    /\ sCall.accessToken # EmptyString
    /\ sCall.bundle # <<>>

\* --------------------------------------------- RBAC middleware: properties
\* the context holds a role / the id of a caller
RoleInContext == bReq.user_role.exists /\ bReq.user_role.type = "UserRole"
CallerInContext == bReq.user_id.exists /\ bReq.user_id.type = "string"
Rejected(out, status, error) ==
    /\ out.status = status
    /\ out.error = error
    /\ out.aborted
    /\ ~out.next

\* C18: RequireAdmin lets the request continue iff the user_role of the
\* context is admin; it answers 401 unauthorized when no role is in the
\* context and 403 forbidden when a role is there that is not admin, and in
\* both rejections the handler does not run.
C18_AdminOnly ==
    bOut.RequireAdmin.ran =>
        /\ bOut.RequireAdmin.next <=> (RoleInContext /\ bReq.user_role.role = RoleAdmin)
        /\ bOut.RequireAdmin.next => (~bOut.RequireAdmin.aborted /\ bOut.RequireAdmin.status = StatusOK)
        /\ ~RoleInContext => Rejected(bOut.RequireAdmin, StatusUnauthorized, "Unauthorized")
        /\ (RoleInContext /\ bReq.user_role.role # RoleAdmin) =>
              Rejected(bOut.RequireAdmin, StatusForbidden, "Access denied")

C18_Witness ==
    /\ bOut.RequireAdmin.ran
    /\ RoleInContext
    /\ bReq.user_role.role = RoleUser
    /\ bOut.RequireAdmin.status = StatusForbidden

\* the three middlewares have all seen the request
AllThreeRan ==
    /\ bOut.RequireAdmin.ran
    /\ bOut.RequireOwnership.ran
    /\ bOut.RequireOwnershipOrAdmin.ran
\* what owner-or-admin does with a caller and a role in the context
OwnerOrAdminRule ==
    (bOut.RequireOwnershipOrAdmin.ran /\ CallerInContext /\ RoleInContext) =>
        /\ bReq.user_id.id = bReq.id => bOut.RequireOwnershipOrAdmin.next
        /\ bReq.user_role.role = RoleAdmin => bOut.RequireOwnershipOrAdmin.next
        /\ (bReq.user_id.id # bReq.id /\ bReq.user_role.role # RoleAdmin) =>
              Rejected(bOut.RequireOwnershipOrAdmin, StatusForbidden, "Access denied")

\* C19 as stated: RequireOwnershipOrAdmin lets a request continue exactly
\* when RequireAdmin or RequireOwnership lets the same request continue; the
\* owner passes, an admin passes for any id, a non-admin on another id gets
\* 403.
C19_OwnerOrAdminIsEither ==
    /\ AllThreeRan =>
          (bOut.RequireOwnershipOrAdmin.next
              <=> (bOut.RequireAdmin.next \/ bOut.RequireOwnership.next))
    /\ OwnerOrAdminRule

\* C19 amended: the same for every request whose context holds both a
\* user_id and a user_role, or neither; a context that lacks one of the two
\* is answered 401 by RequireOwnershipOrAdmin and the handler does not run.
C19_OwnerOrAdminIsEitherWhenBothSet ==
    /\ (AllThreeRan /\ (CallerInContext <=> RoleInContext)) =>
          (bOut.RequireOwnershipOrAdmin.next
              <=> (bOut.RequireAdmin.next \/ bOut.RequireOwnership.next))
    /\ OwnerOrAdminRule
    /\ (bOut.RequireOwnershipOrAdmin.ran /\ ~(CallerInContext /\ RoleInContext)) =>
          Rejected(bOut.RequireOwnershipOrAdmin, StatusUnauthorized, "Unauthorized")

C19_Witness ==
    /\ AllThreeRan
    /\ CallerInContext
    /\ RoleInContext
    /\ bReq.user_role.role = RoleAdmin
    /\ bReq.user_id.id # bReq.id
    /\ bOut.RequireOwnershipOrAdmin.next
    /\ ~bOut.RequireOwnership.next

\* -------------------------------------- registration: concurrent requests
\* p and q ask for the same username or the same email
SameUsernameOrEmail(p, q) ==
    \/ rReq[p].Username # "" /\ rReq[p].Username = rReq[q].Username
    \/ rReq[p].Email # "" /\ rReq[p].Email = rReq[q].Email
\* p got as far as the Identity store
ReachedStore(p) == LogOf(p, "Create") # {}
\* no store call and no hashing of p failed for a reason of its own
NoFault(p) == \A i \in DOMAIN rLog[p] : rLog[p][i].err \notin {ErrDB, ErrHash}
\* the Identities that hold the username or the email p asked for
Holders(p) ==
    {id \in UserIds :
        /\ users[id].present
        /\ \/ rReq[p].Username # "" /\ users[id].Username = rReq[p].Username
           \/ rReq[p].Email # "" /\ users[id].Email = rReq[p].Email}
\* two calls that raced for one username or email have both returned
RaceOver(p, q) ==
    /\ p # q
    /\ rRet[p].returned /\ rRet[q].returned
    /\ ReachedStore(p) /\ ReachedStore(q)
    /\ SameUsernameOrEmail(p, q)
    /\ \A r \in Procs : NoFault(r)
    /\ \A r \in Procs \ {p, q} : rPc[r] = "idle"

\* C20: of two Register calls racing for the same username or email, under
\* every interleaving of their store operations, exactly one succeeds and the
\* other fails with the user-exists error; the loser deletes nothing and
\* creates no Credential, and afterwards exactly one Identity holds that
\* username or email, and it has a Credential.
C20_RaceLoserGetsUserExists ==
    \A p, q \in Procs :
        RaceOver(p, q) =>
            \E w \in {p, q} :
                LET l == CHOOSE x \in {p, q} : x # w
                IN  /\ rRet[w].err = ErrNil
                    /\ rRet[l].err = ErrUserExists
                    /\ rRet[l].bundle = <<>>
                    /\ LogOf(l, "Delete") = {}
                    /\ LogOf(l, "CreateCredentials") = {}
                    /\ Holders(w) = {rUser[w]}
                    /\ rUser[w] \in creds

\* ------------------------------------------- registration gates: properties
\* p has called Register
Called(p) == rPc[p] # "idle"
\* the request of p carries a birth date that isUnder13 turns away
UnderAge(p) == rReq[p].BirthDate # NoDate /\ isUnder13(rReq[p].BirthDate, today)
\* the request of p carries a reserved username
Reserved(p) == rReq[p].Username # "" /\ isReservedUsername(rReq[p].Username)
\* the error the gates of step 1 owe the request of p
GateError(p) == IF UnderAge(p) THEN ErrUserUnderAge ELSE ErrValidation

\* C21: a Register call turned away by the age gate (ErrUserUnderAge) or by
\* the reserved-username gate (ErrValidation) has returned that error and no
\* Token Bundle, has invoked neither the Identity create nor the Credential
\* create nor any other store operation, and no row of either store is its.
C21_GateRejectionTouchesNoStore ==
    \A p \in Procs :
        (Called(p) /\ (UnderAge(p) \/ Reserved(p))) =>
            /\ rPc[p] = "done"
            /\ rRet[p] = [returned |-> TRUE, err |-> GateError(p), bundle |-> <<>>]
            /\ rLog[p] = <<>>
            /\ rUser[p] = 0
            /\ (\A q \in Procs : Called(q) => (UnderAge(q) \/ Reserved(q))) =>
                  /\ users = [i \in UserIds |-> NoUser]
                  /\ creds = {}

C21_Witness ==
    \E p, q \in Procs :
        /\ rRet[p].returned /\ rRet[p].err = ErrUserUnderAge /\ rReq[p].Username # ""
        /\ rRet[q].returned /\ rRet[q].err = ErrValidation /\ rReq[q].Username = "admin"

\* ------------------------------------------------------ the age gate alone
\* the months and days of the month the dates of the age gate are drawn from
AgeMonths == {1, 2, 3, 12}
AgeDays == {1, 28, 29, 31}
\* the calendar dates of the years ys
DatesOf(ys) ==
    {date \in [y : ys, m : AgeMonths, d : AgeDays] : date.d <= DaysIn(date.y, date.m)}
\* birth dates twelve to fourteen years before the current dates, leap and
\* non-leap years on both sides
AgeBirthDates == DatesOf({2011, 2012})
AgeTodays == DatesOf({2024, 2025})
AgeRequest(birthDate) ==
    [Username |-> "ann", Email |-> "", BirthDate |-> birthDate, Password |-> "secret123"]

InitAge ==
    /\ InitConfig
    /\ users = [i \in UserIds |-> NoUser]
    /\ creds = {}
    /\ cUser = [ID |-> 1, Role |-> RoleUser]
    /\ InitCodecVars
    /\ gReq = NoReq
    /\ gPc = "idle"
    /\ gCtx = NoCtx
    /\ gResp = NoResp
    /\ gCalls = <<>>
    /\ sCall = NoCall
    /\ InitRBACVars
    /\ today \in AgeTodays
    /\ nextId = 1
    /\ rPc = [p \in Procs |-> "idle"]
    /\ rReq = [p \in Procs |-> NoRequest]
    /\ rUser = [p \in Procs |-> 0]
    /\ rRet = [p \in Procs |-> NoReturn]
    /\ rLog = [p \in Procs |-> <<>>]

\* Register called with a birth date, or with none
AgeRegister == \E birthDate \in AgeBirthDates \cup {NoDate} : RegisterCall(1, AgeRequest(birthDate))

\* the caller has its answer from step 1; the next call
AgeNextCall ==
    /\ rPc[1] \in {"done", "create"}
    /\ rPc' = [rPc EXCEPT ![1] = "idle"]
    /\ rReq' = [rReq EXCEPT ![1] = NoRequest]
    /\ rRet' = [rRet EXCEPT ![1] = NoReturn]
    /\ UNCHANGED <<clock, secretKey, tokenDuration, users, creds, codecVars, rbacVars, svcVars, gateVars,
                   today, nextId, rUser, rLog>>

NextAge == AgeRegister \/ AgeNextCall

SpecAge == InitAge /\ [][NextAge]_vars

\* ------------------------------------------------- the age gate: properties
\* the age in completed years on the date now, by comparing (month, day)
CalendarAge(birthDate, now) ==
    LET before == \/ now.m < birthDate.m
                  \/ now.m = birthDate.m /\ now.d < birthDate.d
    IN  now.y - birthDate.y - (IF before THEN 1 ELSE 0)

\* C22: Register turns a call away with ErrUserUnderAge exactly when it
\* carries a birth date whose age in completed years on the current date,
\* by the calendar (month, day), is under 13; without a birth date the age
\* gate is skipped.
C22_AgeGateIsCalendarAge ==
    Called(1) =>
        (rRet[1].err = ErrUserUnderAge) <=>
            (rReq[1].BirthDate # NoDate /\ CalendarAge(rReq[1].BirthDate, today) < 13)

\* ------------------------------------------- the refresh route: properties
\* the refresh route was called without a refresh cookie
RefreshWithoutCookie == sCall.op = "AuthHandler.RefreshToken" /\ sCall.kind = "absent"

\* C23: a refresh request without a refresh cookie (the empty string as the
\* refresh token) is rejected with the unauthorized error, HTTP 401 and the
\* body Unauthorized, not as an invalid token; no Token Bundle is issued and
\* no refresh cookie is set.
C23_MissingTokenIsUnauthorized ==
    RefreshWithoutCookie =>
        /\ sCall.arg = EmptyString
        /\ sCall.err = ErrUnauthorized
        /\ sCall.resp.status = StatusUnauthorized
        /\ sCall.resp.error = "Unauthorized"
        /\ sCall.bundle = <<>>
        /\ sCall.resp.SetCookie = EmptyString

\* C24: every Identity that Register has put into the Identity store has a
\* username or an email, so that Login can find it by one of them; Register
\* creates no Identity with neither.
C24_PersistedIdentityHasLoginName ==
    \A p \in Procs :
        \A i \in LogOf(p, "Create") :
            rLog[p][i].err = ErrNil =>
                /\ rReq[p].Username # "" \/ rReq[p].Email # ""
                /\ users[rLog[p][i].id].present =>
                      \/ users[rLog[p][i].id].Username # ""
                      \/ users[rLog[p][i].id].Email # ""

\* ------------------------------------------------ renewal path: properties
\* RefreshAccessToken succeeded and the validation of the new token failed
RevalidateFailed ==
    /\ BearerExpired
    /\ RefreshReturned(ErrNil)
    /\ Len(gCalls) >= 3
    /\ gCalls[3].op = "ValidateToken"
    /\ gCalls[3].arg = gCalls[2].out
    /\ gCalls[3].err # ErrNil

\* C25: under RequireAuth, when RefreshAccessToken succeeded and the
\* validation of the newly issued access token fails, the request is answered
\* as an internal error, not as an expired token, and the downstream handler
\* does not run.
C25_RevalidateFailureIsInternalError ==
    (GateDone("RequireAuth") /\ RevalidateFailed) =>
        /\ gResp.status = StatusInternalServerError
        /\ gResp.error = "Internal server error"
        /\ gResp.aborted
        /\ HandlerRuns = 0

\* ------------------------------------------- stateless sessions: properties
\* the bearer token of the request at hand
Bearer == BearerToken(gReq.authHeader)
\* the request carries an access token of this server, unexpired even now
UnexpiredAccessToken ==
    /\ gReq.bearerKind = "access"
    /\ Bearer[1].key = secretKey
    /\ clock < ClaimsOf(Bearer).ExpiresAt
\* the identity the bearer token names, as the store has it now
BearerIdentity == users[ClaimsOf(Bearer).UserID]

\* C26: RequireAuth lets every request with a correctly signed, unexpired
\* access token continue with the identity id of the token, by one
\* ValidateToken call and no other service call, whether the Identity store
\* holds that identity, holds it deactivated, or no longer holds it.
C26_GateIgnoresIdentityStore ==
    (GateDone("RequireAuth") /\ UnexpiredAccessToken) =>
        /\ Len(gCalls) = 2
        /\ gCalls[1].op = "ValidateToken"
        /\ gCalls[1].err = ErrNil
        /\ gCalls[2] = NextCall(SetIdentity(ClaimsOf(Bearer)))
        /\ gCtx.user_id = ClaimsOf(Bearer).UserID
        /\ gResp.status = StatusOK
        /\ ~gResp.aborted

C26_Witness ==
    /\ GateDone("RequireAuth")
    /\ UnexpiredAccessToken
    /\ ~BearerIdentity.present
    /\ \E id \in UserIds : users[id].present /\ ~users[id].IsActive
    /\ HandlerRuns = 1

\* ---------------------------------------- reuse of a refresh token: properties
\* RefreshToken has already returned a new bundle for the token at hand
UsedBefore == RefreshCalled /\ sCall.uses >= 1
\* the token at hand is unexpired at the call and its identity exists, active
StillGood ==
    /\ OwnToken
    /\ ~OwnTokenExpired
    /\ users[ClaimsOf(sCall.arg).UserID].present
    /\ SubjectActive

ContinuedRenewed ==
    /\ BearerExpired
    /\ RefreshReturned(ErrNil)
    /\ RevalidateReturned(ErrNil)
    /\ HandlerRuns = 1
    /\ gCtx.has

\* C28: for both gates the finished response carries X-New-Access-Token
\* exactly when the request continued with an identity attached by a
\* successful silent renewal; a response rejected by RequireAuth and an
\* anonymous continuation of OptionalAuth never carry it.
C28_RenewalHeaderOnlyOnRenewal ==
    gPc = "done" =>
        /\ (gResp.XNewAccessToken # EmptyString) <=> ContinuedRenewed
        /\ gResp.aborted => gResp.XNewAccessToken = EmptyString
        /\ (gReq.gate = "OptionalAuth" /\ ~gCtx.has) => gResp.XNewAccessToken = EmptyString

\* ---------------------------- an access policy behind RequireAuth: properties
\* the request has reached the RBAC middleware of its route
PolicyEntered == bReq # NoRBACRequest
PolicyOutcomes == {bOut.RequireAdmin, bOut.RequireOwnership, bOut.RequireOwnershipOrAdmin}

\* C29: a request that RequireAuth let continue has user_id as a string and
\* user_role as a UserRole in its context, those of the validated claims, and
\* RequireAdmin, RequireOwnership and RequireOwnershipOrAdmin behind it
\* either let it continue or answer 403 forbidden, never 401 unauthorized.
C29_PolicyAfterAuthNeverUnauthorized ==
    /\ (GateDone("RequireAuth") /\ HandlerRuns = 1) => gCtx.has
    /\ PolicyEntered =>
          /\ bReq.user_id = StringValue(gCtx.user_id)
          /\ bReq.user_role.exists
          /\ bReq.user_role.type = "UserRole"
          /\ bReq.user_role.role = gCtx.user_role
          /\ \A out \in PolicyOutcomes :
                out.ran =>
                    /\ out.status # StatusUnauthorized
                    /\ out = Continue \/ out = handleRBACError(ErrForbidden)

C29_Witness ==
    /\ PolicyEntered
    /\ RevalidateReturned(ErrNil)
    /\ bOut.RequireAdmin = handleRBACError(ErrForbidden)
    /\ bOut.RequireOwnership = Continue
    /\ bOut.RequireOwnershipOrAdmin = Continue

\* ------------------------------------- the renewed identity: properties
\* the request continued after a silent renewal
SilentlyRenewed ==
    /\ gPc = "done"
    /\ BearerExpired
    /\ RefreshReturned(ErrNil)
    /\ RevalidateReturned(ErrNil)
\* the identity the refresh token in the cookie names, as the store has it
CookieSubject == users[ClaimsOf(gReq.cookie.value).UserID]

\* C30: after a silent renewal the handler runs with the identity id and the
\* role of the subject of the refresh token in the cookie, whichever identity
\* the expired bearer token names.
C30_RenewedIdentityIsCookieSubject ==
    SilentlyRenewed =>
        /\ HandlerRuns = 1
        /\ gCtx.has
        /\ gCtx.user_id = CookieSubject.ID
        /\ gCtx.user_role = CookieSubject.Role
====
